---------------------------- MODULE Spec2Model ----------------------------
(***************************************************************************)
(* A model of the upload orchestration engine of irys-storage:             *)
(*                                                                         *)
(*   - the two connection pools: UltraFastConnectionPool                   *)
(*     (src/src/multi-user-api.js) and ConnectionPool (src/unnamed/        *)
(*     part_001);                                                          *)
(*   - the rate limiters: JSONUserManager.checkRateLimit,                  *)
(*     UserManager.checkRateLimit and ProductionDatabase.checkRateLimit,   *)
(*     with their pruning (lazy filter, cleanup, cleanupOldRateLimits);    *)
(*   - the upload paths uploadFileWithUserTracking and                     *)
(*     IrysUploadService.createTokenAssets / uploadFile.                   *)
(*                                                                         *)
(* JavaScript runs one callback at a time: every action below is one       *)
(* synchronous run of code between two awaits (or between two database     *)
(* callbacks), so interleavings are exactly those of the event loop.       *)
(***************************************************************************)
EXTENDS Integers, Sequences, FiniteSets, TLC

(***************************************************************************)
(* Bounds of the model.                                                    *)
(***************************************************************************)
\* concurrent borrowers / upload requests
NumCallers == 4
\* the maxConnections argument given to the pool's constructor
PoolSize == 2
\* getConnection calls made in one behaviour of the pool specification
MaxCalls == 5

\* identities (user ids / wallet addresses) making requests
NumIdentities == 2
\* concurrent checkRateLimit callers of the rate-limiter specification
NumCheckers == 2
\* checkRateLimit calls made in one behaviour of the rate-limiter specification
MaxChecks == 3
\* the length of the sliding window (timeWindowMs / CONFIG.RATE_LIMIT_WINDOW), in ticks
WindowMs == 2
\* the ceiling of UserManager / JSONUserManager.checkRateLimit (maxRequests)
maxRequests == 2
\* the ceiling of ProductionDatabase.checkRateLimit (CONFIG.RATE_LIMIT_PER_MINUTE)
RATE_LIMIT_PER_MINUTE == 2
\* ticks in one UTC day
DayLen == 22
\* Date.now() when the model starts, and the last instant it reaches
StartTime == 20
MaxTime == 23
\* upload calls that can be in progress together
NumRequests == 2
\* the maxConnections the upload services construct their pool with
UploadPoolSize == 1
\* CONFIG.MAX_UPLOAD_SIZE, in bytes
MAX_UPLOAD_SIZE == 2
\* the size limit of fastUpload's validateFile (10 MB in the source)
FAST_MAX_SIZE == 2
\* MAX_IMAGE_SIZE, MAX_VIDEO_SIZE, MAX_AUDIO_SIZE of irys-token-creator, in
\* the unit of MAX_UPLOAD_SIZE (the defaults: 2 MB, 10 MB, 5 MB)
MAX_IMAGE_SIZE == 2
MAX_VIDEO_SIZE == 10
MAX_AUDIO_SIZE == 5
\* the largest file handed to a validator
MaxFileSize == 11
\* recordUpload calls made in one behaviour of the ledger specification
MaxRecords == 3
\* distinct transaction ids passed to recordUpload
NumTransactionIds == 2
\* cleanupOldRateLimits deletes what is older than RATE_LIMIT_WINDOW * 10
SweepFactor == 10
\* cleanup(daysOld = 30)
DefaultDaysOld == 30

Callers == 1..NumCallers
Identities == 1..NumIdentities
Checkers == 1..NumCheckers
Requests == 1..NumRequests
\* let connection = null: no handle
NoHandle == 0

VARIABLES
  \* ---- connection pools ----------------------------------------------
  variant,            \* which pool class is instantiated: "ultra" | "basic"
  maxConnections,     \* this.maxConnections (both classes)
  pool,               \* this.pool: idle handles (both classes)
  active,             \* UltraFastConnectionPool.active
  waiting,            \* UltraFastConnectionPool.waiting (resolve closures, by caller)
  stats,              \* UltraFastConnectionPool.stats
  activeConnections,  \* ConnectionPool.activeConnections
  waitingQueue,       \* ConnectionPool.waitingQueue
  constructed,        \* handles Uploader(Solana).withWallet has produced so far
  held,               \* held[c]: the handle caller c received and has not released
  via,                \* via[c]: how c obtained it: "none"|"reuse"|"create"|"handoff"
  \* ---- borrowers of the pool specification ---------------------------
  pc,                 \* pc[c]: where caller c stands
  calls,              \* getConnection calls made so far
  trip                \* history: the run of acquires and releases under way

VARIABLES
  \* ---- rate limiters -------------------------------------------------
  backend,            \* the ledger in use: "json" | "sqlite" | "production"
  configured,         \* CONFIG.RATE_LIMIT_PER_MINUTE of the upload path of
                      \* part_001, read from process.env when the module loads
  now,                \* the wall clock, Date.now(), in ticks
  rateLimits,         \* JSONUserManager.rateLimits: identity -> list of entries
  rate_limits,        \* the rate_limits table of the SQLite ledgers, in rowid order
  rl,                 \* rl[c]: the checkRateLimit call caller c is in
  checks,             \* checkRateLimit calls made so far
  hist,               \* hist[id]: the results identity id's calls returned, in order
  overlap             \* overlap[id]: two calls of id have been in flight together

VARIABLES
  \* ---- upload orchestration -----------------------------------------
  up,                 \* up[r]: the upload call in progress in slot r, its locals
  started,            \* upload calls made so far
  cachedUploader,     \* the uploader the single-uploader modules keep (0: none)
  clockMs,            \* the millisecond Date.now() last returned to a token call
  users,              \* user_sessions / users table: identity -> row
  uploads,            \* upload_history / uploads table: its rows
  active_uploads,     \* active_uploads table, in rowid order
  token_assets,       \* token_assets table: its rows
  receipts,           \* the receipt ids the network has issued
  lateCalls,          \* remote uploads still running after their caller timed out
  disk                \* metadata files present in the temp directory

poolVars == <<variant, maxConnections, pool, active, waiting, stats, activeConnections,
              waitingQueue, constructed, held, via>>
borrowerVars == <<pc, calls, trip>>
rateVars == <<backend, configured, now, rateLimits, rate_limits, rl, checks, hist, overlap>>
tables == <<users, uploads, active_uploads, token_assets>>
network == <<receipts, lateCalls>>
uploadVars == <<up, started, cachedUploader, clockMs, tables, network, disk>>
vars == <<poolVars, borrowerVars, rateVars, uploadVars>>

\* what each specification leaves alone
outsidePool == <<rateVars, uploadVars>>
outsideRate == <<poolVars, borrowerVars, uploadVars>>

(***************************************************************************)
(* Sequence helpers for Array.prototype methods.                           *)
(***************************************************************************)
\* arr.indexOf(x): first index of x (1-based), 0 when absent (-1 in JS)
indexOf(arr, x) ==
  IF \E i \in 1..Len(arr) : arr[i] = x
  THEN CHOOSE i \in 1..Len(arr) : arr[i] = x /\ \A j \in 1..(i-1) : arr[j] # x
  ELSE 0

\* arr.splice(i, 1)
splice1(arr, i) == SubSeq(arr, 1, i-1) \o SubSeq(arr, i+1, Len(arr))

\* the array after arr.pop()
popped(arr) == SubSeq(arr, 1, Len(arr)-1)

Range(s) == {s[i] : i \in 1..Len(s)}
NoDup(s) == \A i, j \in 1..Len(s) : i # j => s[i] # s[j]

(***************************************************************************)
(* UltraFastConnectionPool (src/src/multi-user-api.js 551-616).            *)
(* Each operator is one synchronous run of getConnection /                 *)
(* releaseConnection for caller c; it leaves the caller's own position to  *)
(* the specification that uses it.                                         *)
(***************************************************************************)

\* constructor
UltraFast_constructor ==
  /\ pool = <<>>
  /\ active = <<>>
  /\ waiting = <<>>
  /\ stats = [created |-> 0, reused |-> 0, errors |-> 0]

\* a faulty reuse that leaves the handle in the idle list
UltraFast_getConnection_reuse_keepsIdle(c) ==
  /\ Len(pool) > 0
  /\ LET connection == pool[Len(pool)] IN
       /\ pool' = pool
       /\ active' = Append(active, connection)
       /\ stats' = [stats EXCEPT !.reused = @ + 1]
       /\ held' = [held EXCEPT ![c] = connection]
       /\ via' = [via EXCEPT ![c] = "reuse"]
  /\ UNCHANGED <<variant, maxConnections, waiting, activeConnections, waitingQueue, constructed>>

\* if (this.pool.length > 0) { pop; active.push; reused++; return }
UltraFast_getConnection_reuse(c) ==
  /\ Len(pool) > 0
  /\ LET connection == pool[Len(pool)] IN
       /\ pool' = popped(pool)
       /\ active' = Append(active, connection)
       /\ stats' = [stats EXCEPT !.reused = @ + 1]
       /\ held' = [held EXCEPT ![c] = connection]
       /\ via' = [via EXCEPT ![c] = "reuse"]
  /\ UNCHANGED <<variant, maxConnections, waiting, activeConnections, waitingQueue, constructed>>

\* if (this.active.length < this.maxConnections) { try { await Uploader(...)
\* the call is now suspended at the await; nothing has been written yet
UltraFast_getConnection_create(c) ==
  /\ Len(pool) = 0
  /\ Len(active) < maxConnections
  /\ UNCHANGED poolVars

\* the await resolves: active.push(connection); created++; return connection
UltraFast_getConnection_created(c) ==
  /\ LET connection == constructed + 1 IN
       /\ constructed' = connection
       /\ active' = Append(active, connection)
       /\ stats' = [stats EXCEPT !.created = @ + 1]
       /\ held' = [held EXCEPT ![c] = connection]
       /\ via' = [via EXCEPT ![c] = "create"]
  /\ UNCHANGED <<variant, maxConnections, pool, waiting, activeConnections, waitingQueue>>

\* a faulty catch block that rethrows without counting the error
UltraFast_getConnection_failed_uncounted(c) ==
  /\ UNCHANGED poolVars

\* the await rejects: catch (error) { this.stats.errors++; throw error; }
UltraFast_getConnection_failed(c) ==
  /\ stats' = [stats EXCEPT !.errors = @ + 1]
  /\ UNCHANGED <<variant, maxConnections, pool, active, waiting, activeConnections,
                 waitingQueue, constructed, held, via>>

\* return new Promise((resolve) => { this.waiting.push(resolve) })
UltraFast_getConnection_wait(c) ==
  /\ Len(pool) = 0
  /\ Len(active) >= maxConnections
  /\ waiting' = Append(waiting, c)
  /\ UNCHANGED <<variant, maxConnections, pool, active, stats, activeConnections,
                 waitingQueue, constructed, held, via>>

\* releaseConnection(connection), called by c with the handle it holds
UltraFast_releaseConnection(c) ==
  LET connection == held[c]
      index == indexOf(active, connection)
      removed == IF index > 0 THEN splice1(active, index) ELSE active
  IN
  /\ IF Len(waiting) > 0
     THEN \* const resolve = this.waiting.shift(); active.push; resolve(connection)
          /\ waiting' = Tail(waiting)
          /\ active' = Append(removed, connection)
          /\ held' = [held EXCEPT ![c] = NoHandle, ![Head(waiting)] = connection]
          /\ via' = [via EXCEPT ![c] = "none", ![Head(waiting)] = "handoff"]
          /\ pool' = pool
     ELSE \* this.pool.push(connection)
          /\ active' = removed
          /\ pool' = Append(pool, connection)
          /\ held' = [held EXCEPT ![c] = NoHandle]
          /\ via' = [via EXCEPT ![c] = "none"]
          /\ waiting' = waiting
  /\ UNCHANGED <<variant, maxConnections, stats, activeConnections, waitingQueue, constructed>>

(***************************************************************************)
(* ConnectionPool (src/unnamed/part_001 49-81).                            *)
(***************************************************************************)

\* constructor
ConnectionPool_constructor ==
  /\ pool = <<>>
  /\ activeConnections = 0
  /\ waitingQueue = <<>>

\* if (this.pool.length > 0) return this.pool.pop();
ConnectionPool_getConnection_reuse(c) ==
  /\ Len(pool) > 0
  /\ pool' = popped(pool)
  /\ held' = [held EXCEPT ![c] = pool[Len(pool)]]
  /\ via' = [via EXCEPT ![c] = "reuse"]
  /\ UNCHANGED <<variant, maxConnections, active, waiting, stats, activeConnections,
                 waitingQueue, constructed>>

\* if (this.activeConnections < this.maxConnections) {
\*   this.activeConnections++; const uploader = await Uploader(...)
ConnectionPool_getConnection_create(c) ==
  /\ Len(pool) = 0
  /\ activeConnections < maxConnections
  /\ activeConnections' = activeConnections + 1
  /\ UNCHANGED <<variant, maxConnections, pool, active, waiting, stats, waitingQueue,
                 constructed, held, via>>

\* the await resolves: return uploader
ConnectionPool_getConnection_created(c) ==
  /\ constructed' = constructed + 1
  /\ held' = [held EXCEPT ![c] = constructed + 1]
  /\ via' = [via EXCEPT ![c] = "create"]
  /\ UNCHANGED <<variant, maxConnections, pool, active, waiting, stats, activeConnections,
                 waitingQueue>>

\* the await rejects: the error leaves getConnection, nothing is undone
ConnectionPool_getConnection_failed(c) ==
  /\ UNCHANGED poolVars

\* return new Promise((resolve) => { this.waitingQueue.push(resolve) })
ConnectionPool_getConnection_wait(c) ==
  /\ Len(pool) = 0
  /\ activeConnections >= maxConnections
  /\ waitingQueue' = Append(waitingQueue, c)
  /\ UNCHANGED <<variant, maxConnections, pool, active, waiting, stats, activeConnections,
                 constructed, held, via>>

\* a faulty release that wakes the most recently suspended acquirer (pop
\* instead of shift)
ConnectionPool_releaseConnection_lifo(c) ==
  LET uploader == held[c]
      last == waitingQueue[Len(waitingQueue)] IN
  /\ IF Len(waitingQueue) > 0
     THEN /\ waitingQueue' = popped(waitingQueue)
          /\ held' = [held EXCEPT ![c] = NoHandle, ![last] = uploader]
          /\ via' = [via EXCEPT ![c] = "none", ![last] = "handoff"]
          /\ pool' = pool
     ELSE /\ pool' = Append(pool, uploader)
          /\ held' = [held EXCEPT ![c] = NoHandle]
          /\ via' = [via EXCEPT ![c] = "none"]
          /\ waitingQueue' = waitingQueue
  /\ UNCHANGED <<variant, maxConnections, active, waiting, stats, activeConnections, constructed>>

\* releaseConnection(uploader), called by c with the handle it holds
ConnectionPool_releaseConnection(c) ==
  LET uploader == held[c] IN
  /\ IF Len(waitingQueue) > 0
     THEN \* const waitingRequest = this.waitingQueue.shift(); waitingRequest(uploader)
          /\ waitingQueue' = Tail(waitingQueue)
          /\ held' = [held EXCEPT ![c] = NoHandle, ![Head(waitingQueue)] = uploader]
          /\ via' = [via EXCEPT ![c] = "none", ![Head(waitingQueue)] = "handoff"]
          /\ pool' = pool
     ELSE \* this.pool.push(uploader)
          /\ pool' = Append(pool, uploader)
          /\ held' = [held EXCEPT ![c] = NoHandle]
          /\ via' = [via EXCEPT ![c] = "none"]
          /\ waitingQueue' = waitingQueue
  /\ UNCHANGED <<variant, maxConnections, active, waiting, stats, activeConnections, constructed>>

(***************************************************************************)
(* Time and timestamps.                                                    *)
(*                                                                         *)
(* The clock counts ticks; a UTC day has DayLen of them.  The SQLite       *)
(* ledgers compare timestamps as TEXT: the request_time column holds what  *)
(* CURRENT_TIMESTAMP produces, "YYYY-MM-DD HH:MM:SS", and the bound        *)
(* parameter is what Date.prototype.toISOString produces,                  *)
(* "YYYY-MM-DDTHH:MM:SS.sssZ".  Neither looks like a number, so the        *)
(* column's DATETIME (NUMERIC) affinity converts nothing and SQLite        *)
(* compares the two byte by byte.  A timestamp text is modelled by its     *)
(* three parts in that order: the date, the separator character, and the   *)
(* time of day.                                                            *)
(***************************************************************************)
\* new Date(t).toISOString()
toISOString(t) == [date |-> t \div DayLen, sep |-> "T", time |-> t % DayLen]

\* DEFAULT CURRENT_TIMESTAMP, evaluated at instant t
CURRENT_TIMESTAMP(t) == [date |-> t \div DayLen, sep |-> " ", time |-> t % DayLen]

\* the byte of the separator
charCode(ch) == IF ch = " " THEN 32 ELSE 84

\* a > b for TEXT values (BINARY collation: memcmp)
TextGreater(a, b) ==
  \/ a.date > b.date
  \/ a.date = b.date /\ charCode(a.sep) > charCode(b.sep)
  \/ a.date = b.date /\ a.sep = b.sep /\ a.time > b.time

\* a < b for TEXT values
TextLess(a, b) == TextGreater(b, a)

\* the instant a timestamp text denotes
instantOf(ts) == ts.date * DayLen + ts.time

(***************************************************************************)
(* The state of one checkRateLimit call.                                   *)
(***************************************************************************)
IdleCall == [pc |-> "idle", userId |-> 0, cutoffTime |-> toISOString(0),
             requestCount |-> 0]

\* the ledger is in use for identity id by a caller other than c
InFlight(c, id) ==
  \E d \in Checkers \ {c} : rl[d].pc # "idle" /\ rl[d].userId = id

\* the result of a call is handed to its caller
Returned(id, result) == [hist EXCEPT ![id] = Append(@, result @@ [at |-> now])]

\* the ledgers are durable: loadData() reads rate_limits.json, and the
\* rate_limits table is on disk.  What an earlier run of the service left
\* there is older than a day.
StaleTime == StartTime - DayLen - 1
LoadedLists == {<<>>, <<[timestamp |-> StaleTime, ipAddress |-> 1]>>}
StoredTables ==
  {<<>>, <<[user_id |-> 1, request_time |-> CURRENT_TIMESTAMP(StaleTime),
            ip_address |-> 1]>>}

\* no checkRateLimit call has been made
RateCallsIdle ==
  /\ rl = [c \in Checkers |-> IdleCall]
  /\ checks = 0
  /\ hist = [id \in Identities |-> <<>>]
  /\ overlap = [id \in Identities |-> FALSE]

\* a ledger that holds nothing yet
RateConstructed ==
  /\ now = StartTime
  /\ rateLimits = [id \in Identities |-> <<>>]
  /\ rate_limits = <<>>
  /\ RateCallsIdle

(***************************************************************************)
(* JSONUserManager (src/src/user-json-manager.js).                         *)
(* checkRateLimit is synchronous: one action.  An identity without a list  *)
(* has the empty list (the code creates it on first use).                  *)
(***************************************************************************)
\* this.rateLimits[userId].filter(request => request.timestamp > cutoffTime)
filterNewer(list, cutoffTime) ==
  LET keep(request) == request.timestamp > cutoffTime
  IN SelectSeq(list, keep)

\* checkRateLimit(userId, ipAddress, timeWindowMs = 60000, maxRequests = 60)
JSONUserManager_checkRateLimit(c, userId) ==
  LET cutoffTime == now - WindowMs
      kept == filterNewer(rateLimits[userId], cutoffTime)
      requestCount == Len(kept)
      result == IF requestCount >= maxRequests
                THEN [allowed |-> FALSE, remaining |-> 0,
                      resetTime |-> now + WindowMs]
                ELSE [allowed |-> TRUE,
                      remaining |-> maxRequests - requestCount - 1,
                      resetTime |-> now + WindowMs]
  IN
  /\ rateLimits' = [rateLimits EXCEPT ![userId] =
        IF requestCount >= maxRequests
        THEN kept
        ELSE Append(kept, [timestamp |-> now, ipAddress |-> c])]
  /\ rl' = [rl EXCEPT ![c] = IdleCall]
  /\ hist' = Returned(userId, result)
  /\ UNCHANGED <<backend, configured, now, rate_limits, overlap>>

\* cleanup(daysOld = 30)
JSONUserManager_cleanup(daysOld) ==
  LET cutoffTime == now - daysOld * DayLen IN
  /\ rateLimits' = [id \in Identities |-> filterNewer(rateLimits[id], cutoffTime)]
  /\ UNCHANGED <<backend, configured, now, rate_limits, rl, checks, hist, overlap>>

(***************************************************************************)
(* The SQLite rate limiters: UserManager.checkRateLimit                    *)
(* (src/src/user-database.js 188-234) and ProductionDatabase.checkRateLimit*)
(* (src/src/multi-user-api.js 452-495).  A call is three runs of code: the *)
(* call itself, which computes cutoffTime and queues the SELECT; the       *)
(* SELECT and its callback, which decides and queues the INSERT; the       *)
(* INSERT and its callback, which resolves the promise.  Statements of     *)
(* other calls may run in between.                                         *)
(***************************************************************************)
\* a faulty SELECT that leaves out the user_id condition
countNewer_anyUser(userId, cutoffTime) ==
  Cardinality({i \in 1..Len(rate_limits) :
                  TextGreater(rate_limits[i].request_time, cutoffTime)})

\* SELECT COUNT(*) FROM rate_limits WHERE user_id = ? AND request_time > ?
countNewer(userId, cutoffTime) ==
  Cardinality({i \in 1..Len(rate_limits) :
                  /\ rate_limits[i].user_id = userId
                  /\ TextGreater(rate_limits[i].request_time, cutoffTime)})

\* INSERT INTO rate_limits (user_id, ip_address) VALUES (?, ?)
insertRateLimit(userId, ipAddress) ==
  Append(rate_limits, [user_id |-> userId,
                       request_time |-> CURRENT_TIMESTAMP(now),
                       ip_address |-> ipAddress])

\* const cutoffTime = new Date(Date.now() - timeWindowMs).toISOString();
\* db.get(sql, [userId, cutoffTime], ...)
sqlite_checkRateLimit_call(c, userId) ==
  /\ rl' = [rl EXCEPT ![c] = [IdleCall EXCEPT !.pc = "select",
                                            !.userId = userId,
                                            !.cutoffTime = toISOString(now - WindowMs)]]
  /\ overlap' = [overlap EXCEPT ![userId] = @ \/ InFlight(c, userId)]
  /\ UNCHANGED <<backend, configured, now, rateLimits, rate_limits, hist>>

\* the SELECT runs; its callback computes allowed and either queues the
\* INSERT or resolves { allowed: false, remaining: 0, resetTime }
sqlite_checkRateLimit_select(c, ceiling) ==
  LET requestCount == countNewer(rl[c].userId, rl[c].cutoffTime)
      allowed == requestCount < ceiling
      result == [allowed |-> FALSE, remaining |-> 0, resetTime |-> now + WindowMs]
  IN
  /\ IF allowed
     THEN /\ rl' = [rl EXCEPT ![c].pc = "insert", ![c].requestCount = requestCount]
          /\ hist' = hist
     ELSE /\ rl' = [rl EXCEPT ![c] = IdleCall]
          /\ hist' = Returned(rl[c].userId, result)
  /\ UNCHANGED <<backend, configured, now, rateLimits, rate_limits, checks, overlap>>

\* the INSERT runs; its callback resolves { allowed: true, remaining, resetTime }
sqlite_checkRateLimit_insert(c, ceiling) ==
  LET result == [allowed |-> TRUE,
                 remaining |-> ceiling - rl[c].requestCount - 1,
                 resetTime |-> now + WindowMs]
  IN
  /\ rate_limits' = insertRateLimit(rl[c].userId, c)
  /\ rl' = [rl EXCEPT ![c] = IdleCall]
  /\ hist' = Returned(rl[c].userId, result)
  /\ UNCHANGED <<backend, configured, now, rateLimits, checks, overlap>>

\* UserManager.checkRateLimit(userId, ipAddress, timeWindowMs = 60000, maxRequests = 60)
UserManager_checkRateLimit_call(c, userId) == sqlite_checkRateLimit_call(c, userId)
UserManager_checkRateLimit_select(c) == sqlite_checkRateLimit_select(c, maxRequests)
UserManager_checkRateLimit_insert(c) == sqlite_checkRateLimit_insert(c, maxRequests)

\* ProductionDatabase.checkRateLimit(walletAddress, ipAddress)
ProductionDatabase_checkRateLimit_call(c, walletAddress) ==
  sqlite_checkRateLimit_call(c, walletAddress)
ProductionDatabase_checkRateLimit_select(c) ==
  sqlite_checkRateLimit_select(c, RATE_LIMIT_PER_MINUTE)
ProductionDatabase_checkRateLimit_insert(c) ==
  sqlite_checkRateLimit_insert(c, RATE_LIMIT_PER_MINUTE)

\* IrysUploadService.cleanupOldRateLimits:
\* DELETE FROM rate_limits WHERE request_time < ?  (now - RATE_LIMIT_WINDOW * 10)
cleanupOldRateLimits ==
  LET cutoffTime == toISOString(now - WindowMs * SweepFactor)
      stays(row) == ~TextLess(row.request_time, cutoffTime)
  IN
  /\ rate_limits' = SelectSeq(rate_limits, stays)
  /\ UNCHANGED <<backend, configured, now, rateLimits, rl, checks, hist, overlap>>

(***************************************************************************)
(* The state of the upload services: the locals of each upload call, the   *)
(* ledger tables they write, the temp directory and the storage network.   *)
(***************************************************************************)
\* a path names a file by what fs.existsSync, path.extname and fs.statSync
\* report for it
NoFile == [exists |-> FALSE, ext |-> "", size |-> 0]
Files ==
  { [exists |-> TRUE, ext |-> ".png", size |-> 1],
    [exists |-> TRUE, ext |-> ".png", size |-> MAX_UPLOAD_SIZE + 1],
    [exists |-> TRUE, ext |-> ".exe", size |-> 1],
    [exists |-> FALSE, ext |-> ".png", size |-> 0] }

\* let metadataPath = null
NoPath == <<>>

\* no metadata document built yet
NoMetadata == <<>>

\* the mime entry of the file type tables (SUPPORTED_TYPES, FILE_TYPES),
\* which agree on the extensions they share
mime(ext) ==
  CASE ext = ".jpg" -> "image/jpeg"
    [] ext = ".jpeg" -> "image/jpeg"
    [] ext = ".png" -> "image/png"
    [] ext = ".gif" -> "image/gif"
    [] ext = ".webp" -> "image/webp"
    [] ext = ".svg" -> "image/svg+xml"
    [] ext = ".mp4" -> "video/mp4"
    [] ext = ".mp3" -> "audio/mpeg"
    [] ext = ".json" -> "application/json"
    [] OTHER -> "undefined"

\* the metadata document of a token as far as its file entry goes:
\* properties.files[0].type, and the extension of the logo it describes
metadataOf(logoPath, type) == [logo |-> logoPath.ext, type |-> type]

\* The network gives every upload a receipt with an id of its own: the id
\* of the upload that call r makes for its file f ("file", "logo",
\* "metadata") is <<r, f>>.
NoReceipt == <<>>

\* a call that has read nothing from the ledger
NoResult == <<>>

\* the locals of an upload call; fx, acq and rel are its history: the kinds
\* of effect it has had, the handles it has obtained and the releases it
\* has made; made is the history of its request: the temp files written
\* for it
UploadIdle ==
  [pc |-> "idle", userId |-> 0, file |-> NoFile, sessionId |-> <<>>,
   phase |-> "none", uploadSessionId |-> 0, receipt |-> NoReceipt,
   logoResult |-> NoReceipt, metadataResult |-> NoReceipt,
   metadataPath |-> NoPath, logoPath |-> NoPath, made |-> {},
   metadata |-> NoMetadata, result |-> NoResult,
   todo |-> <<>>, err |-> "none", thrown |-> "none",
   customTags |-> <<>>, tags |-> <<>>, rateCheck |-> NoResult,
   fx |-> {}, acq |-> 0, rel |-> 0]

\* a user_sessions / users row that does not exist
NoRow == [present |-> FALSE, total_uploads |-> 0, total_size_bytes |-> 0,
          created_at |-> 0, last_activity |-> 0]

\* empty ledger tables, an empty temp directory, no upload call made
UploadsConstructed ==
  /\ up = [r \in Requests |-> UploadIdle]
  /\ started = 0
  /\ cachedUploader = NoHandle
  /\ clockMs = 0
  /\ users = [id \in Identities |-> NoRow]
  /\ uploads = {}
  /\ active_uploads = <<>>
  /\ token_assets = {}
  /\ receipts = {}
  /\ lateCalls = {}
  /\ disk = {}

(***************************************************************************)
(* The pool under concurrent borrowers.  A borrower calls getConnection,   *)
(* and releases the handle it received exactly once.                       *)
(***************************************************************************)
WaitQ == IF variant = "ultra" THEN waiting ELSE waitingQueue

\* no run of acquires and releases is being followed
NoTrip == [phase |-> "none", before |-> 0, got |-> 0, out |-> {}]

\* no caller is inside a getConnection call
Quiescent == \A c \in Callers : pc[c] \notin {"creating", "suspended"}

\* a getConnection call begins: it continues the run of acquires under way
\* or, from a state without suspended acquirers, begins a run; before is
\* the size of the idle list before the first acquire of the run
tripAtCall ==
  IF ~Quiescent THEN NoTrip
  ELSE IF trip.phase = "acquiring"
       THEN IF trip.got < maxConnections THEN trip ELSE NoTrip
  ELSE [phase |-> "acquiring", before |-> Len(pool),
        got |-> 0, out |-> {}]

\* the call of the run returns the handle
tripWith(t, connection) ==
  IF t.phase = "acquiring"
  THEN [t EXCEPT !.got = @ + 1, !.out = @ \cup {connection}]
  ELSE NoTrip

\* a handle is released: the run goes on while the handles it obtained are
\* released one after the other, and is done when all are back
tripAtRelease(connection) ==
  IF Quiescent /\ trip.phase \in {"acquiring", "releasing"} /\ connection \in trip.out
  THEN [trip EXCEPT !.out = @ \ {connection},
                    !.phase = IF trip.out = {connection} THEN "done" ELSE "releasing"]
  ELSE NoTrip

InitPool ==
  /\ variant \in {"ultra", "basic"}
  /\ maxConnections = PoolSize
  /\ UltraFast_constructor
  /\ ConnectionPool_constructor
  /\ constructed = 0
  /\ held = [c \in Callers |-> NoHandle]
  /\ via = [c \in Callers |-> "none"]
  /\ pc = [c \in Callers |-> "idle"]
  /\ calls = 0
  /\ trip = NoTrip
  /\ backend = "json"
  /\ configured = RATE_LIMIT_PER_MINUTE
  /\ RateConstructed
  /\ UploadsConstructed

\* c is not inside a getConnection call and holds nothing
CanCall(c) == pc[c] \in {"idle", "threw"} /\ calls < MaxCalls

Borrower_reuse(c) ==
  /\ CanCall(c)
  /\ IF variant = "ultra" THEN UltraFast_getConnection_reuse(c)
                          ELSE ConnectionPool_getConnection_reuse(c)
  /\ pc' = [pc EXCEPT ![c] = "holding"]
  /\ calls' = calls + 1
  /\ trip' = tripWith(tripAtCall, held'[c])
  /\ UNCHANGED outsidePool

Borrower_create(c) ==
  /\ CanCall(c)
  /\ IF variant = "ultra" THEN UltraFast_getConnection_create(c)
                          ELSE ConnectionPool_getConnection_create(c)
  /\ pc' = [pc EXCEPT ![c] = "creating"]
  /\ calls' = calls + 1
  /\ trip' = tripAtCall
  /\ UNCHANGED outsidePool

Borrower_created(c) ==
  /\ pc[c] = "creating"
  /\ IF variant = "ultra" THEN UltraFast_getConnection_created(c)
                          ELSE ConnectionPool_getConnection_created(c)
  /\ pc' = [pc EXCEPT ![c] = "holding"]
  /\ trip' = tripWith(trip, held'[c])
  /\ UNCHANGED <<calls, outsidePool>>

Borrower_createFailed(c) ==
  /\ pc[c] = "creating"
  /\ IF variant = "ultra" THEN UltraFast_getConnection_failed(c)
                          ELSE ConnectionPool_getConnection_failed(c)
  /\ pc' = [pc EXCEPT ![c] = "threw"]
  /\ trip' = NoTrip
  /\ UNCHANGED <<calls, outsidePool>>

Borrower_wait(c) ==
  /\ CanCall(c)
  /\ IF variant = "ultra" THEN UltraFast_getConnection_wait(c)
                          ELSE ConnectionPool_getConnection_wait(c)
  /\ pc' = [pc EXCEPT ![c] = "suspended"]
  /\ calls' = calls + 1
  /\ trip' = NoTrip
  /\ UNCHANGED outsidePool

Borrower_release(c) ==
  /\ pc[c] = "holding"
  /\ IF variant = "ultra" THEN UltraFast_releaseConnection(c)
                          ELSE ConnectionPool_releaseConnection(c)
  \* the acquirer whose promise was resolved leaves its await with the handle
  /\ pc' = [x \in Callers |->
             IF x = c THEN "idle"
             ELSE IF pc[x] = "suspended" /\ held'[x] # NoHandle THEN "holding"
             ELSE pc[x]]
  /\ trip' = tripAtRelease(held[c])
  /\ UNCHANGED <<calls, outsidePool>>

NextPool ==
  \/ \E c \in Callers : Borrower_reuse(c)
  \/ \E c \in Callers : Borrower_create(c)
  \/ \E c \in Callers : Borrower_created(c)
  \/ \E c \in Callers : Borrower_createFailed(c)
  \/ \E c \in Callers : Borrower_wait(c)
  \/ \E c \in Callers : Borrower_release(c)

SpecPool == InitPool /\ [][NextPool]_vars

(***************************************************************************)
(* The rate limiters under concurrent callers, a running clock and the     *)
(* cleanup sweeps.                                                         *)
(***************************************************************************)
Ceiling == IF backend = "production" THEN RATE_LIMIT_PER_MINUTE ELSE maxRequests

InitRate ==
  /\ backend \in {"json", "sqlite", "production"}
  /\ configured = RATE_LIMIT_PER_MINUTE
  /\ now = StartTime
  /\ rateLimits \in [Identities -> IF backend = "json" THEN LoadedLists ELSE {<<>>}]
  /\ rate_limits \in (IF backend = "json" THEN {<<>>} ELSE StoredTables)
  /\ RateCallsIdle
  /\ variant = "ultra"
  /\ maxConnections = PoolSize
  /\ UltraFast_constructor
  /\ ConnectionPool_constructor
  /\ constructed = 0
  /\ held = [c \in Callers |-> NoHandle]
  /\ via = [c \in Callers |-> "none"]
  /\ pc = [c \in Callers |-> "idle"]
  /\ calls = 0
  /\ trip = NoTrip
  /\ UploadsConstructed

\* time passes
Tick ==
  /\ now < MaxTime
  /\ now' = now + 1
  /\ UNCHANGED <<backend, configured, rateLimits, rate_limits, rl, checks, hist, overlap>>
  /\ UNCHANGED outsideRate

Check_json(c, id) ==
  /\ backend = "json"
  /\ rl[c].pc = "idle"
  /\ checks < MaxChecks
  /\ checks' = checks + 1
  /\ JSONUserManager_checkRateLimit(c, id)
  /\ UNCHANGED outsideRate

Cleanup_json(daysOld) ==
  /\ backend = "json"
  /\ JSONUserManager_cleanup(daysOld)
  /\ UNCHANGED outsideRate

Check_call(c, id) ==
  /\ backend \in {"sqlite", "production"}
  /\ rl[c].pc = "idle"
  /\ checks < MaxChecks
  /\ checks' = checks + 1
  /\ IF backend = "sqlite" THEN UserManager_checkRateLimit_call(c, id)
                           ELSE ProductionDatabase_checkRateLimit_call(c, id)
  /\ UNCHANGED outsideRate

Check_select(c) ==
  /\ backend \in {"sqlite", "production"}
  /\ rl[c].pc = "select"
  /\ IF backend = "sqlite" THEN UserManager_checkRateLimit_select(c)
                           ELSE ProductionDatabase_checkRateLimit_select(c)
  /\ UNCHANGED outsideRate

Check_insert(c) ==
  /\ backend \in {"sqlite", "production"}
  /\ rl[c].pc = "insert"
  /\ IF backend = "sqlite" THEN UserManager_checkRateLimit_insert(c)
                           ELSE ProductionDatabase_checkRateLimit_insert(c)
  /\ UNCHANGED <<checks, outsideRate>>

Sweep ==
  /\ backend = "production"
  /\ cleanupOldRateLimits
  /\ UNCHANGED outsideRate

NextRate ==
  \/ Tick
  \/ \E c \in Checkers, id \in Identities : Check_json(c, id)
  \/ \E daysOld \in {1, DefaultDaysOld} : Cleanup_json(daysOld)
  \/ \E c \in Checkers, id \in Identities : Check_call(c, id)
  \/ \E c \in Checkers : Check_select(c)
  \/ \E c \in Checkers : Check_insert(c)
  \/ Sweep

SpecRate == InitRate /\ [][NextRate]_vars

(***************************************************************************)
(* Claims about the connection pools (checked under SpecPool).             *)
(***************************************************************************)
Holders == {c \in Callers : held[c] # NoHandle}

\* C1: UltraFastConnectionPool never constructs more handles than
\* maxConnections, whatever the interleaving of concurrent getConnection
\* calls (also calls that arrive while a construction is still pending).
C1_ConstructedAtMostMax ==
  variant = "ultra" => constructed <= maxConnections

\* C2: no handle is ever held by two borrowers at the same time, a handle
\* that is lent out is not in the idle list, and no handle appears twice in
\* the idle list (each borrower releasing what it received exactly once).
C2_NoHandleLentTwice ==
  /\ \A c1, c2 \in Callers :
        (c1 # c2 /\ held[c1] # NoHandle) => held[c1] # held[c2]
  /\ \A c \in Callers : held[c] # NoHandle => held[c] \notin Range(pool)
  /\ NoDup(pool)

\* C2 witness: a released handle has been handed on through the waiting
\* queue while another borrower holds a different handle.
C2_Witness ==
  \E c1, c2 \in Callers :
     /\ c1 # c2
     /\ via[c1] = "handoff"
     /\ held[c2] # NoHandle
     /\ held[c1] # held[c2]

\* C3: releaseConnection serves waiters first and in FIFO order: with a
\* suspended acquirer, the released handle goes to the longest-suspended
\* one, exactly one acquirer is woken and the idle list is untouched; with
\* none, the handle goes to idle.  Hence a non-empty waiting queue implies
\* an empty idle list.
C3_ReleaseStep(c) ==
  (held[c] # NoHandle /\ held'[c] = NoHandle) =>
     IF Len(WaitQ) > 0
     THEN /\ WaitQ' = Tail(WaitQ)
          /\ held'[Head(WaitQ)] = held[c]
          /\ \A x \in Callers \ {c, Head(WaitQ)} : held'[x] = held[x]
          /\ pool' = pool
     ELSE /\ pool' = Append(pool, held[c])
          /\ \A x \in Callers \ {c} : held'[x] = held[x]
          /\ WaitQ' = WaitQ

C3_WaitersServedFirstFIFO ==
  /\ [](Len(WaitQ) > 0 => pool = <<>>)
  /\ [][\A c \in Callers : C3_ReleaseStep(c)]_vars

\* C3 witness: a handle was handed to the head of a queue of two suspended
\* acquirers; the second one is still suspended.
C3_Witness ==
  \E c \in Callers :
     /\ via[c] = "handoff"
     /\ Len(WaitQ) > 0
     /\ \A i \in 1..Len(WaitQ) : WaitQ[i] # c

\* C4: a failed handle construction in UltraFastConnectionPool.getConnection
\* adds one to stats.errors, gives the caller the error and no handle,
\* leaves idle and active as they were, and takes no capacity: every slot
\* of active belongs to a handle that is lent out.
C4_FailureStep(c) ==
  (pc[c] = "creating" /\ pc'[c] # "creating" /\ held'[c] = NoHandle) =>
     /\ pc'[c] = "threw"
     /\ stats'.errors = stats.errors + 1
     /\ stats'.created = stats.created
     /\ pool' = pool
     /\ active' = active
     /\ held' = held

C4_ConstructionFailureKeepsCapacity ==
  /\ [](variant = "ultra" => Len(active) = Cardinality(Holders))
  /\ [][variant = "ultra" => \A c \in Callers : C4_FailureStep(c)]_vars

\* C4 witness: after a failed construction the pool was filled again up to
\* maxConnections by new constructions.
C4_Witness ==
  /\ variant = "ultra"
  /\ stats.errors > 0
  /\ stats.created = maxConnections
  /\ Len(active) = maxConnections

(***************************************************************************)
(* Claims about the rate limiters (checked under SpecRate).                *)
(***************************************************************************)
\* the instants of identity id's entries in the given ledger contents
EntryInstants(lists, table, id) ==
  IF backend = "json"
  THEN [i \in 1..Len(lists[id]) |-> lists[id][i].timestamp]
  ELSE LET mine(row) == row.user_id = id
           rows == SelectSeq(table, mine)
       IN [i \in 1..Len(rows) |-> instantOf(rows[i].request_time)]

\* how many of them are newer than the instant cutoff
NewerIn(lists, table, id, cutoff) ==
  LET e == EntryInstants(lists, table, id)
  IN Cardinality({i \in 1..Len(e) : e[i] > cutoff})

\* identity id's entries inside the window that ends at instant t
LiveCount(id, t) == NewerIn(rateLimits, rate_limits, id, t - WindowMs)

\* C5: with the database-backed rate limiters, under every interleaving of
\* concurrent checkRateLimit calls, the entries of an identity inside the
\* current window never exceed the ceiling.
C5_LiveEntriesAtMostCeiling ==
  backend \in {"sqlite", "production"} =>
     \A id \in Identities : LiveCount(id, now) <= Ceiling

\* C6: calls made one after the other within one window, starting from an
\* empty window: the k-th (k <= ceiling) is admitted with remaining =
\* ceiling - k; the (ceiling+1)-th is denied with remaining = 0 and
\* resetTime = now + windowMs; a denied call adds no entry.
InOneWindow(id) ==
  /\ ~overlap[id]
  /\ Len(hist[id]) > 0
  /\ hist[id][Len(hist[id])].at < hist[id][1].at + WindowMs
  /\ \A c \in Checkers : ~(rl[c].pc # "idle" /\ rl[c].userId = id)

C6_SequentialAdmission ==
  backend \in {"json", "sqlite"} =>
     \A id \in Identities : InOneWindow(id) =>
        /\ \A k \in 1..Len(hist[id]) :
              /\ k <= Ceiling =>
                    /\ hist[id][k].allowed
                    /\ hist[id][k].remaining = Ceiling - k
              /\ k = Ceiling + 1 =>
                    /\ ~hist[id][k].allowed
                    /\ hist[id][k].remaining = 0
                    /\ hist[id][k].resetTime = hist[id][k].at + WindowMs
        /\ Len(hist[id]) <= Ceiling + 1 =>
              LiveCount(id, hist[id][Len(hist[id])].at)
                 = (IF Len(hist[id]) <= Ceiling THEN Len(hist[id]) ELSE Ceiling)

\* C7: the admission decision counts exactly the identity's entries newer
\* than now - windowMs, and no pruning (the lazy filter, cleanup, the
\* cleanupOldRateLimits sweep) removes an entry still inside the window.
C7_NoLiveEntryRemoved ==
  \A id \in Identities :
     NewerIn(rateLimits', rate_limits', id, now - WindowMs)
        >= NewerIn(rateLimits, rate_limits, id, now - WindowMs)

C7_DecisionCountsWindow ==
  /\ backend = "json" =>
        \A id \in Identities : Len(hist'[id]) > Len(hist[id]) =>
           (hist'[id][Len(hist'[id])].allowed <=> LiveCount(id, now) < Ceiling)
  /\ backend # "json" =>
        \A c \in Checkers : (rl[c].pc = "select" /\ rl'[c].pc # "select") =>
           (rl'[c].pc = "insert" <=>
              NewerIn(rateLimits, rate_limits, rl[c].userId,
                      instantOf(rl[c].cutoffTime)) < Ceiling)

C7_WindowIsWhatCounts ==
  [][C7_NoLiveEntryRemoved /\ C7_DecisionCountsWindow]_vars


(***************************************************************************)
(* The upload services.                                                    *)
(*                                                                         *)
(* Two services are modelled, told apart by the pool they construct:       *)
(*   variant = "basic": uploadFileWithUserTracking (src/unnamed/part_001)  *)
(*     with the SQLite UserManager (CONFIG.USE_SQLITE is                   *)
(*     `process.env.USE_SQLITE === 'true' || true`, always true) and a     *)
(*     ConnectionPool;                                                     *)
(*   variant = "ultra": IrysUploadService.createTokenAssets and uploadFile *)
(*     (src/src/multi-user-api.js) with ProductionDatabase and an          *)
(*     UltraFastConnectionPool.                                            *)
(* An action is one run of code between two awaits: a database statement   *)
(* or a network call completes, its callback runs, and the async function  *)
(* that awaited it continues up to its next await.                         *)
(***************************************************************************)
\* part_001 108-122: the validation of uploadFileWithUserTracking
Tracking_validate(filePath) ==
  IF ~filePath.exists THEN "File not found"
  ELSE IF filePath.ext \notin {".jpg", ".jpeg", ".png", ".gif", ".webp", ".mp4",
                               ".mp3", ".json"}
       THEN "Unsupported file type"
  ELSE IF filePath.size > MAX_UPLOAD_SIZE THEN "File too large"
  ELSE "ok"

\* SUPPORTED_TYPES[ext].maxSize; 0 when the extension is not supported
maxSize(ext) ==
  IF ext \in {".jpg", ".jpeg", ".png", ".gif", ".webp", ".svg", ".avif", ".pdf",
              ".json"}
  THEN MAX_UPLOAD_SIZE
  ELSE IF ext \in {".mp4", ".mov", ".webm"} THEN MAX_UPLOAD_SIZE * 5
  ELSE IF ext \in {".mp3", ".wav", ".flac"} THEN MAX_UPLOAD_SIZE * 3
  ELSE 0

\* IrysUploadService.validateFile
validateFile(filePath) ==
  IF ~filePath.exists THEN "File not found"
  ELSE IF maxSize(filePath.ext) = 0 THEN "Unsupported file type"
  ELSE IF filePath.size > maxSize(filePath.ext) THEN "File too large"
  ELSE IF filePath.size = 0 THEN "Empty file not allowed"
  ELSE "ok"

\* a faulty upsert that replaces the row it finds (INSERT OR REPLACE)
upsertUser_replacing(userId) ==
  [users EXCEPT ![userId] = [NoRow EXCEPT !.present = TRUE, !.created_at = now,
                                          !.last_activity = now]]

\* INSERT INTO users ... ON CONFLICT DO UPDATE SET last_activity = CURRENT_TIMESTAMP
upsertUser(userId) ==
  [users EXCEPT ![userId] =
     IF @.present THEN [@ EXCEPT !.last_activity = now]
     ELSE [NoRow EXCEPT !.present = TRUE, !.created_at = now,
                        !.last_activity = now]]

\* UPDATE users SET total_uploads = total_uploads + 1,
\*   total_size_bytes = total_size_bytes + ?, last_activity = CURRENT_TIMESTAMP
updateUserStats(userId, fileSize) ==
  [users EXCEPT ![userId] =
     IF @.present
     THEN [@ EXCEPT !.total_uploads = @ + 1, !.total_size_bytes = @ + fileSize,
                    !.last_activity = now]
     ELSE @]

\* INSERT INTO upload_history / uploads.  The tables are read by no
\* statement of the upload path, and no two rows are equal: a table is the
\* set of its rows.
insertUpload(userId, transactionId, fileSize) ==
  uploads \cup {[user_id |-> userId, transaction_id |-> transactionId,
                 file_size |-> fileSize]}

\* a cleanup that leaves the file where it is
unlinked_never(path) == disk

\* fs.unlinkSync(path) when fs.existsSync(path)
unlinked(path) == disk \ {path}

\* the call has been handed a pool handle
Obtained(u) == [u EXCEPT !.pc = "acquired", !.acq = @ + 1, !.fx = @ \cup {"conn"}]

\* the locals of a call are gone when it has returned or thrown: what stays
\* is what the caller receives and the call's history
Returned_to_caller(u) ==
  [UploadIdle EXCEPT !.pc = u.pc, !.userId = u.userId, !.receipt = u.receipt,
                     !.logoResult = u.logoResult,
                     !.metadataResult = u.metadataResult,
                     !.err = u.err, !.thrown = u.thrown, !.made = u.made,
                     !.result = u.result,
                     !.fx = u.fx, !.acq = u.acq, !.rel = u.rel]

\* uploadFileWithUserTracking was called by createTokenAssetsMultiUser for
\* the logo or for the metadata file: its caller continues when it ends
InPipeline(u) == variant = "basic" /\ u.phase \in {"logo", "metadata"}

\* the call returns its result
Done(u) ==
  IF InPipeline(u) THEN [u EXCEPT !.pc = "uploaded"]
  ELSE Returned_to_caller([u EXCEPT !.pc = "done"])

\* the call ends by throwing.  In uploadFileWithUserTracking the catch
\* block evaluates `uploadSessionId`, which is declared with let inside the
\* try block and is not in scope: the evaluation throws a ReferenceError,
\* which is what the caller receives, and completeUpload(.., 'failed') is
\* not reached.  createTokenAssets rethrows the error it caught.
Rejected(u, e) ==
  [u EXCEPT !.pc = "failed", !.err = e,
            !.thrown = IF variant = "basic" THEN "ReferenceError" ELSE e]
Thrown(u, e) ==
  IF InPipeline(u) THEN [Rejected(u, e) EXCEPT !.pc = "threw"]
  ELSE Returned_to_caller(Rejected(u, e))

\* what fs.existsSync, path.extname and fs.statSync report for the file the
\* call was given: a temp file of the request is there while it is on disk
statFile(u) ==
  IF ~InPipeline(u) THEN u.file
  ELSE [u.file EXCEPT !.exists =
          (IF u.phase = "logo" THEN u.logoPath ELSE u.metadataPath) \in disk]

\* slot r can take a new upload call
CanUpload(r) == up[r].pc = "idle"

\* connectionPool.getConnection() up to its first await; u is the caller's
\* record at the call
getConnection(r, u) ==
  \/ /\ IF variant = "ultra" THEN UltraFast_getConnection_reuse(r)
                             ELSE ConnectionPool_getConnection_reuse(r)
     /\ up' = [up EXCEPT ![r] = Obtained(u)]
  \/ /\ IF variant = "ultra" THEN UltraFast_getConnection_create(r)
                             ELSE ConnectionPool_getConnection_create(r)
     /\ up' = [up EXCEPT ![r] = [u EXCEPT !.pc = "creating"]]
  \/ /\ IF variant = "ultra" THEN UltraFast_getConnection_wait(r)
                             ELSE ConnectionPool_getConnection_wait(r)
     /\ up' = [up EXCEPT ![r] = [u EXCEPT !.pc = "suspended"]]

\* connectionPool.releaseConnection(connection) by r, which continues as u;
\* a call suspended in getConnection that is handed the handle resumes
releaseConnection(r, u) ==
  /\ IF variant = "ultra" THEN UltraFast_releaseConnection(r)
                          ELSE ConnectionPool_releaseConnection(r)
  /\ up' = [x \in Requests |->
              IF x = r THEN [u EXCEPT !.rel = @ + 1]
              ELSE IF up[x].pc = "suspended" /\ held'[x] # NoHandle
                   THEN Obtained(up[x])
                   ELSE up[x]]


(***************************************************************************)
(* uploadFileWithUserTracking (src/unnamed/part_001 86-206).               *)
(***************************************************************************)
\* the call: sessionId, startTime, and createOrGetUser is awaited
Tracking_call(r, userId, filePath) ==
  /\ variant = "basic"
  /\ CanUpload(r)
  /\ started' = started + 1
  /\ UNCHANGED cachedUploader
  /\ up' = [up EXCEPT ![r] = [UploadIdle EXCEPT !.pc = "createOrGetUser",
                                               !.userId = userId,
                                               !.phase = "file",
                                               !.file = filePath]]
  /\ UNCHANGED <<clockMs, tables, network, disk, poolVars, borrowerVars, rateVars>>

\* 1. the upsert of createOrGetUser runs; 2. checkRateLimit is called
Tracking_createOrGetUser(r, ok) ==
  /\ variant = "basic"
  /\ up[r].pc = "createOrGetUser"
  /\ IF ok
     THEN /\ users' = upsertUser(up[r].userId)
          /\ up' = [up EXCEPT ![r].pc = "checkRateLimit", ![r].fx = @ \cup {"user"}]
          /\ UserManager_checkRateLimit_call(r, up[r].userId)
          /\ checks' = checks + 1
     ELSE /\ up' = [up EXCEPT ![r] = Thrown(up[r], "LedgerError")]
          /\ UNCHANGED <<users, rateVars>>
  /\ UNCHANGED <<started, cachedUploader, clockMs, uploads, active_uploads, token_assets, network,
                 disk, poolVars, borrowerVars>>

\* the SELECT of checkRateLimit runs; on denial
\* if (!rateCheck.allowed) throw new Error(`Rate limit exceeded...`)
Tracking_checkRateLimit_select(r) ==
  /\ variant = "basic"
  /\ up[r].pc = "checkRateLimit"
  /\ rl[r].pc = "select"
  /\ UserManager_checkRateLimit_select(r)
  /\ up' = IF rl'[r].pc = "insert" THEN up
           ELSE [up EXCEPT ![r] = Thrown(up[r], "RateLimited")]
  /\ UNCHANGED <<started, cachedUploader, clockMs, tables, network, disk, poolVars, borrowerVars>>

\* the INSERT of checkRateLimit runs and the call is admitted; 3. the file
\* is validated; 4. startUpload is awaited
Tracking_checkRateLimit_insert(r) ==
  /\ variant = "basic"
  /\ up[r].pc = "checkRateLimit"
  /\ rl[r].pc = "insert"
  /\ UserManager_checkRateLimit_insert(r)
  /\ LET rateCheck == hist'[up[r].userId][Len(hist'[up[r].userId])]
         u == [up[r] EXCEPT !.fx = @ \cup {"rate"}, !.rateCheck = rateCheck] IN
       up' = [up EXCEPT ![r] =
                IF Tracking_validate(statFile(u)) = "ok"
                THEN [u EXCEPT !.pc = "startUpload"]
                ELSE Thrown(u, "ValidationError")]
  /\ UNCHANGED <<checks, started, cachedUploader, clockMs, tables, network, disk, poolVars,
                 borrowerVars>>

\* the INSERT of startUpload runs: uploadSessionId = this.lastID;
\* 5. connectionPool.getConnection() is awaited
Tracking_startUpload(r, ok) ==
  /\ variant = "basic"
  /\ up[r].pc = "startUpload"
  /\ IF ok
     THEN /\ active_uploads' = Append(active_uploads,
                                      [user_id |-> up[r].userId, status |-> "uploading"])
          /\ getConnection(r, [up[r] EXCEPT !.uploadSessionId = Len(active_uploads) + 1,
                                            !.fx = @ \cup {"track"}])
     ELSE /\ up' = [up EXCEPT ![r] = Thrown(up[r], "LedgerError")]
          /\ UNCHANGED <<active_uploads, poolVars>>
  /\ UNCHANGED <<started, cachedUploader, clockMs, users, uploads, token_assets, network, disk,
                 borrowerVars, rateVars>>

\* Uploader(Solana).withWallet(..) settles: the handle is returned, or the
\* error leaves getConnection and the function (the inner try is not entered)
Tracking_getConnection_settled(r, ok) ==
  /\ variant = "basic"
  /\ up[r].pc = "creating"
  /\ IF ok
     THEN /\ ConnectionPool_getConnection_created(r)
          /\ up' = [up EXCEPT ![r] = Obtained(up[r])]
     ELSE /\ ConnectionPool_getConnection_failed(r)
          /\ up' = [up EXCEPT ![r] = Thrown(up[r], "ConnectionError")]
  /\ UNCHANGED <<started, cachedUploader, clockMs, tables, network, disk, borrowerVars, rateVars>>

\* try { fs.readFileSync(filePath); ...; uploader.upload(fileData, { tags });
\* await Promise.race([uploadPromise, timeoutPromise])
\* } finally { connectionPool.releaseConnection(uploader) }
Tracking_upload(r, readable) ==
  /\ variant = "basic"
  /\ up[r].pc = "acquired"
  /\ InPipeline(up[r]) => (readable <=> statFile(up[r]).exists)
  /\ IF readable
     THEN /\ up' = [up EXCEPT ![r].pc = "upload", ![r].fx = @ \cup {"remote"}]
          /\ UNCHANGED poolVars
     ELSE releaseConnection(r, Thrown(up[r], "FileReadError"))
  /\ UNCHANGED <<started, cachedUploader, clockMs, tables, network, disk, borrowerVars, rateVars>>

\* the remote upload resolves first: receipt; 6. recordUpload is awaited
Tracking_receipt(r) ==
  /\ variant = "basic"
  /\ up[r].pc = "upload"
  /\ receipts' = receipts \cup {<<r, up[r].phase>>}
  /\ up' = [up EXCEPT ![r].pc = "recordUpload", ![r].receipt = <<r, up[r].phase>>]
  /\ UNCHANGED <<started, cachedUploader, clockMs, tables, lateCalls, disk, poolVars, borrowerVars,
                 rateVars>>

\* a faulty timeout path that keeps the handle
Tracking_timeout_keepsHandle(r) ==
  /\ variant = "basic"
  /\ up[r].pc = "upload"
  /\ lateCalls' = lateCalls \cup {[on |-> held[r], by |-> r, id |-> <<r, up[r].phase>>]}
  /\ up' = [up EXCEPT ![r] = Thrown(up[r], "UploadTimeout")]
  /\ UNCHANGED <<started, cachedUploader, clockMs, tables, receipts, disk, poolVars, borrowerVars,
                 rateVars>>

\* the timeout fires first: reject(new Error('Upload timeout')); the remote
\* call keeps running; finally releases
\* a faulty timeout path that gives the rate-limit slot back
Tracking_timeout_refunding(r) ==
  LET refunded(row) == ~(row.user_id = up[r].userId /\ row.ip_address = r) IN
  /\ variant = "basic"
  /\ up[r].pc = "upload"
  /\ lateCalls' = lateCalls \cup {[on |-> held[r], by |-> r, id |-> <<r, up[r].phase>>]}
  /\ releaseConnection(r, Thrown(up[r], "UploadTimeout"))
  /\ rate_limits' = SelectSeq(rate_limits, refunded)
  /\ UNCHANGED <<backend, configured, now, rateLimits, rl, checks, hist, overlap>>
  /\ UNCHANGED <<started, cachedUploader, clockMs, tables, receipts, disk, borrowerVars>>

Tracking_timeout(r) ==
  /\ variant = "basic"
  /\ up[r].pc = "upload"
  /\ lateCalls' = lateCalls \cup {[on |-> held[r], by |-> r, id |-> <<r, up[r].phase>>]}
  /\ releaseConnection(r, Thrown(up[r], "UploadTimeout"))
  /\ UNCHANGED <<started, cachedUploader, clockMs, tables, receipts, disk, borrowerVars, rateVars>>

\* the remote upload rejects first; finally releases
Tracking_remoteError(r) ==
  /\ variant = "basic"
  /\ up[r].pc = "upload"
  /\ releaseConnection(r, Thrown(up[r], "RemoteUploadError"))
  /\ UNCHANGED <<started, cachedUploader, clockMs, tables, network, disk, borrowerVars, rateVars>>

\* UserManager.recordUpload: the INSERT INTO upload_history runs
Tracking_recordUpload_insert(r, ok) ==
  /\ variant = "basic"
  /\ up[r].pc = "recordUpload"
  /\ IF ok
     THEN /\ uploads' = insertUpload(up[r].userId, up[r].receipt, up[r].file.size)
          /\ up' = [up EXCEPT ![r].pc = "recordUpload_update",
                              ![r].fx = @ \cup {"upload"}]
          /\ UNCHANGED poolVars
     ELSE /\ releaseConnection(r, Thrown(up[r], "LedgerError"))
          /\ UNCHANGED uploads
  /\ UNCHANGED <<started, cachedUploader, clockMs, users, active_uploads, token_assets, network, disk,
                 borrowerVars, rateVars>>

\* UserManager.recordUpload: the UPDATE user_sessions runs; completeUpload
\* is awaited
Tracking_recordUpload_update(r, ok) ==
  /\ variant = "basic"
  /\ up[r].pc = "recordUpload_update"
  /\ IF ok
     THEN /\ users' = updateUserStats(up[r].userId, up[r].file.size)
          /\ up' = [up EXCEPT ![r].pc = "completeUpload"]
          /\ UNCHANGED poolVars
     ELSE /\ releaseConnection(r, Thrown(up[r], "LedgerError"))
          /\ UNCHANGED users
  /\ UNCHANGED <<started, cachedUploader, clockMs, uploads, active_uploads, token_assets, network,
                 disk, borrowerVars, rateVars>>

\* UserManager.completeUpload(uploadSessionId, 'completed') runs; the
\* return { success: true, ...uploadData, userId, sessionId,
\*          rateLimitRemaining: rateCheck.remaining - 1 }
uploadResult(u) ==
  [transactionId |-> u.receipt, rateLimitRemaining |-> u.rateCheck.remaining - 1]

\* result is returned; finally releases
Tracking_completeUpload(r, ok) ==
  /\ variant = "basic"
  /\ up[r].pc = "completeUpload"
  /\ IF ok
     THEN /\ active_uploads' = [active_uploads EXCEPT
                                  ![up[r].uploadSessionId].status = "completed"]
          /\ releaseConnection(r, Done([up[r] EXCEPT !.result = uploadResult(up[r])]))
     ELSE /\ releaseConnection(r, Thrown(up[r], "LedgerError"))
          /\ UNCHANGED active_uploads
  /\ UNCHANGED <<started, cachedUploader, clockMs, users, uploads, token_assets, network, disk,
                 borrowerVars, rateVars>>

\* a remote upload whose caller timed out settles: uploadPromise resolves
\* with a receipt or rejects.  Promise.race has settled already, so no code
\* of the service runs.
LateFinish(call, ok) ==
  /\ call \in lateCalls
  /\ lateCalls' = lateCalls \ {call}
  /\ receipts' = IF ok THEN receipts \cup {call.id} ELSE receipts
  /\ UNCHANGED <<up, started, cachedUploader, clockMs, tables, disk, poolVars,
                 borrowerVars, rateVars>>


\* what the file written by fs.writeFileSync(metadataPath, ..) looks like
MetadataFile == [exists |-> TRUE, ext |-> ".json", size |-> 1]

(***************************************************************************)
(* POST /create-token (src/src/multi-user-api.js 56-119) and               *)
(* createTokenAssetsMultiUser (src/unnamed/part_001 209-292), which calls  *)
(* uploadFileWithUserTracking for the logo and then for the metadata file. *)
(***************************************************************************)
\* what multer hands over as req.file: a buffer and the client's file name
LogoUploads == {f \in Files : f.exists}

\* logoPath = `./temp/${req.userId}_${Date.now()}_${req.file.originalname}`
Handler_logoPath(userId, ms) == <<"logo", userId, ms>>

\* path.join('./temp', `metadata_${userId}_${Date.now()}.json`)
MultiUser_metadataPath(userId, ms) == <<"metadata", userId, ms>>

\* the handler saves the logo, builds tokenData (JSON.parse of the
\* attributes and creators fields) and awaits createTokenAssetsMultiUser,
\* which awaits uploadFileWithUserTracking(logoPath), which awaits
\* createOrGetUser.  A field that does not parse throws after the file is
\* written: the handler's catch unlinks it and answers 500.
Handler_createToken(r, userId, logo, parses, sameMs) ==
  /\ variant = "basic"
  /\ CanUpload(r)
  /\ started = 0 => sameMs
  /\ started' = started + 1
  /\ UNCHANGED cachedUploader
  /\ clockMs' = IF sameMs THEN clockMs ELSE clockMs + 1
  /\ LET logoPath == Handler_logoPath(userId, clockMs')
         u == [UploadIdle EXCEPT !.userId = userId, !.file = logo,
                                 !.logoPath = logoPath, !.made = {"logo"}]
     IN IF parses
        THEN /\ disk' = disk \cup {logoPath}
             /\ up' = [up EXCEPT ![r] = [u EXCEPT !.pc = "createOrGetUser",
                                                  !.phase = "logo"]]
        ELSE /\ disk' = unlinked(logoPath)
             /\ up' = [up EXCEPT ![r] =
                         Returned_to_caller([u EXCEPT !.pc = "failed",
                                                      !.err = "BadRequest",
                                                      !.thrown = "BadRequest"])]
  /\ UNCHANGED <<tables, network, poolVars, borrowerVars, rateVars>>

\* the logo upload returned: the metadata file is written and
\* uploadFileWithUserTracking(metadataPath) is called
MultiUser_writeMetadata(r, sameMs) ==
  /\ variant = "basic"
  /\ up[r].pc = "uploaded"
  /\ up[r].phase = "logo"
  /\ clockMs' = IF sameMs THEN clockMs ELSE clockMs + 1
  /\ LET metadataPath == MultiUser_metadataPath(up[r].userId, clockMs') IN
       /\ disk' = disk \cup {metadataPath}
       /\ up' = [up EXCEPT ![r] =
                   [UploadIdle EXCEPT !.pc = "createOrGetUser",
                                      !.userId = up[r].userId,
                                      !.phase = "metadata",
                                      !.file = MetadataFile,
                                      !.logoPath = up[r].logoPath,
                                      !.metadataPath = metadataPath,
                                      !.logoResult = up[r].receipt,
                                      !.metadata =
                                         metadataOf(up[r].file, mime(up[r].file.ext)),
                                      !.made = up[r].made \cup {"metadata"}]]
  /\ UNCHANGED <<started, cachedUploader, tables, network, poolVars, borrowerVars, rateVars>>

\* the metadata upload returned: createTokenAssetsMultiUser returns through
\* its finally, which unlinks the metadata file; the handler runs
\* fs.unlinkSync(logoPath), which throws when the file is gone, and answers
MultiUser_return(r) ==
  /\ variant = "basic"
  /\ up[r].pc = "uploaded"
  /\ up[r].phase = "metadata"
  /\ disk' = disk \ {up[r].metadataPath, up[r].logoPath}
  /\ LET u == [up[r] EXCEPT !.metadataResult = up[r].receipt] IN
       up' = [up EXCEPT ![r] =
                IF up[r].logoPath \in disk
                THEN Returned_to_caller([u EXCEPT !.pc = "done"])
                ELSE Returned_to_caller([u EXCEPT !.pc = "failed",
                                                  !.err = "UnlinkError",
                                                  !.thrown = "UnlinkError"])]
  /\ UNCHANGED <<started, cachedUploader, clockMs, tables, network, poolVars, borrowerVars,
                 rateVars>>

\* an upload threw: createTokenAssetsMultiUser rethrows through its
\* finally, which unlinks the metadata file when there is one; the
\* handler's catch unlinks the logo file when it exists and answers 500
MultiUser_catch(r) ==
  /\ variant = "basic"
  /\ up[r].pc = "threw"
  /\ disk' = disk \ {up[r].metadataPath, up[r].logoPath}
  /\ up' = [up EXCEPT ![r] = Returned_to_caller([up[r] EXCEPT !.pc = "failed"])]
  /\ UNCHANGED <<started, cachedUploader, clockMs, tables, network, poolVars, borrowerVars,
                 rateVars>>

(***************************************************************************)
(* IrysUploadService.createTokenAssets and uploadFile                      *)
(* (src/src/multi-user-api.js 693-870).                                    *)
(***************************************************************************)
\* the statements Promise.all([recordUpload, recordUpload, recordTokenAsset])
\* queues at once, in this order
Recordings == <<"recordUpload_logo", "recordUpload_metadata", "recordTokenAsset">>

\* the call: sessionId = `token_${wallet}_${Date.now()}`; checkRateLimit is
\* awaited.  Date.now() returns the millisecond of the previous call or a
\* later one; the clock starts at the millisecond of the first call.
Service_call(r, walletAddress, logoPath, sameMs) ==
  /\ variant = "ultra"
  /\ CanUpload(r)
  /\ started = 0 => sameMs
  /\ started' = started + 1
  /\ UNCHANGED cachedUploader
  /\ clockMs' = IF sameMs THEN clockMs ELSE clockMs + 1
  /\ up' = [up EXCEPT ![r] = [UploadIdle EXCEPT !.pc = "checkRateLimit",
                                               !.userId = walletAddress,
                                               !.file = logoPath,
                                               !.sessionId = <<walletAddress, clockMs'>>]]
  /\ ProductionDatabase_checkRateLimit_call(r, walletAddress)
  /\ checks' = checks + 1
  /\ UNCHANGED <<tables, network, disk, poolVars, borrowerVars>>

\* the SELECT of checkRateLimit runs; on denial
\* if (!rateCheck.allowed) throw new Error(`Rate limit exceeded...`)
Service_checkRateLimit_select(r) ==
  /\ variant = "ultra"
  /\ up[r].pc = "checkRateLimit"
  /\ rl[r].pc = "select"
  /\ ProductionDatabase_checkRateLimit_select(r)
  /\ up' = IF rl'[r].pc = "insert" THEN up
           ELSE [up EXCEPT ![r] = Thrown(up[r], "RateLimited")]
  /\ UNCHANGED <<started, cachedUploader, clockMs, tables, network, disk, poolVars, borrowerVars>>

\* the INSERT of checkRateLimit runs and the call is admitted;
\* createOrUpdateUser is awaited
Service_checkRateLimit_insert(r) ==
  /\ variant = "ultra"
  /\ up[r].pc = "checkRateLimit"
  /\ rl[r].pc = "insert"
  /\ ProductionDatabase_checkRateLimit_insert(r)
  /\ up' = [up EXCEPT ![r].pc = "createOrUpdateUser", ![r].fx = @ \cup {"rate"}]
  /\ UNCHANGED <<checks, started, cachedUploader, clockMs, tables, network, disk, poolVars,
                 borrowerVars>>

\* the upsert of createOrUpdateUser runs; validateFile(tokenData.logoPath);
\* uploadFile(logoPath): validateFile again, then getConnection is awaited
Service_createOrUpdateUser(r, ok) ==
  /\ variant = "ultra"
  /\ up[r].pc = "createOrUpdateUser"
  /\ IF ok
     THEN /\ users' = upsertUser(up[r].userId)
          /\ LET u == [up[r] EXCEPT !.fx = @ \cup {"user"}] IN
               IF validateFile(u.file) = "ok"
               THEN getConnection(r, [u EXCEPT !.phase = "logo"])
               ELSE /\ up' = [up EXCEPT ![r] = Thrown(u, "ValidationError")]
                    /\ UNCHANGED poolVars
     ELSE /\ up' = [up EXCEPT ![r] = Thrown(up[r], "LedgerError")]
          /\ UNCHANGED <<users, poolVars>>
  /\ UNCHANGED <<started, cachedUploader, clockMs, uploads, active_uploads, token_assets, network,
                 disk, borrowerVars, rateVars>>

\* Uploader(Solana).withWallet(..) settles: the handle is returned, or
\* catch (error) { this.stats.errors++; throw error } and uploadFile's
\* finally finds connection null; createTokenAssets' finally unlinks the
\* metadata file
Service_getConnection_settled(r, ok) ==
  /\ variant = "ultra"
  /\ up[r].pc = "creating"
  /\ IF ok
     THEN /\ UltraFast_getConnection_created(r)
          /\ up' = [up EXCEPT ![r] = Obtained(up[r])]
          /\ UNCHANGED disk
     ELSE /\ UltraFast_getConnection_failed(r)
          /\ up' = [up EXCEPT ![r] = Thrown(up[r], "ConnectionError")]
          /\ disk' = unlinked(up[r].metadataPath)
  /\ UNCHANGED <<started, cachedUploader, clockMs, tables, network, borrowerVars, rateVars>>

\* uploadFile after the await: fs.readFileSync(filePath); tags;
\* connection.upload(fileData, { tags }); await Promise.race([..]).
\* The metadata file can be read when it is still in the temp directory.
Service_upload(r, readable) ==
  /\ variant = "ultra"
  /\ up[r].pc = "acquired"
  /\ up[r].phase = "metadata" => (readable <=> up[r].metadataPath \in disk)
  /\ IF readable
     THEN /\ up' = [up EXCEPT ![r].pc = "upload", ![r].fx = @ \cup {"remote"}]
          /\ UNCHANGED <<poolVars, disk>>
     ELSE /\ releaseConnection(r, Thrown(up[r], "FileReadError"))
          /\ disk' = unlinked(up[r].metadataPath)
  /\ UNCHANGED <<started, cachedUploader, clockMs, tables, network, borrowerVars, rateVars>>

\* the remote upload resolves first: uploadFile returns its result and its
\* finally releases the connection.  After the metadata upload
\* createTokenAssets goes on to
\* await Promise.all([recordUpload(logo), recordUpload(metadata), recordTokenAsset])
Service_receipt(r) ==
  /\ variant = "ultra"
  /\ up[r].pc = "upload"
  /\ receipts' = receipts \cup {<<r, up[r].phase>>}
  /\ releaseConnection(r,
       IF up[r].phase = "logo"
       THEN [up[r] EXCEPT !.pc = "logoUploaded", !.logoResult = <<r, "logo">>]
       ELSE [up[r] EXCEPT !.pc = "recording", !.metadataResult = <<r, "metadata">>,
                          !.todo = Recordings])
  /\ UNCHANGED <<started, cachedUploader, clockMs, tables, lateCalls, disk, borrowerVars, rateVars>>

\* the timeout fires first: uploadFile's finally releases the connection,
\* the remote call keeps running; createTokenAssets' finally unlinks
Service_timeout(r) ==
  /\ variant = "ultra"
  /\ up[r].pc = "upload"
  /\ lateCalls' = lateCalls \cup {[on |-> held[r], by |-> r, id |-> <<r, up[r].phase>>]}
  /\ releaseConnection(r, Thrown(up[r], "UploadTimeout"))
  /\ disk' = unlinked(up[r].metadataPath)
  /\ UNCHANGED <<started, cachedUploader, clockMs, tables, receipts, borrowerVars, rateVars>>

\* the remote upload rejects first
Service_remoteError(r) ==
  /\ variant = "ultra"
  /\ up[r].pc = "upload"
  /\ releaseConnection(r, Thrown(up[r], "RemoteUploadError"))
  /\ disk' = unlinked(up[r].metadataPath)
  /\ UNCHANGED <<started, cachedUploader, clockMs, tables, network, borrowerVars, rateVars>>

\* createTokenAssets continues after the logo upload: the metadata is built,
\* metadataPath = `metadata_${sessionId}.json` is written, and
\* uploadFile(metadataPath) validates it and awaits getConnection
Service_writeMetadata(r) ==
  /\ variant = "ultra"
  /\ up[r].pc = "logoUploaded"
  /\ disk' = disk \cup {up[r].sessionId}
  /\ IF validateFile(MetadataFile) = "ok"
     THEN getConnection(r, [up[r] EXCEPT !.phase = "metadata",
                                         !.metadataPath = up[r].sessionId,
                                         !.metadata =
                                            metadataOf(up[r].file, mime(up[r].file.ext)),
                                         !.made = @ \cup {"metadata"}])
     ELSE FALSE
  /\ UNCHANGED <<started, cachedUploader, clockMs, tables, network, borrowerVars, rateVars>>

\* the statement of this call that was queued first runs, and its callback
\* with it (the database runs the statements of a call in the order they
\* were queued; statements of other calls run in between).  uploads has
\* transaction_id UNIQUE.  The first failure rejects Promise.all and the
\* call throws through the finally block, which unlinks the metadata file;
\* the statements still queued run all the same.
\* The callback of the INSERT INTO uploads is a `function (err)`, which the
\* database driver calls with the statement as `this`: its
\* `this.db.run(updateUserSQL, ..)` throws a TypeError out of the callback,
\* the UPDATE users is never issued and the promise of recordUpload is
\* never settled.  A call whose statements all succeed stays at
\* `await Promise.all([..])`.
Service_statement(r, ok) ==
  LET u == up[r]
      s == Head(u.todo)
      isLogo == s = "recordUpload_logo"
      transactionId == IF isLogo THEN u.logoResult ELSE u.metadataResult
      fileSize == IF isLogo THEN u.file.size ELSE MetadataFile.size
      unique == \A row \in uploads : row.transaction_id # transactionId
      isInsert == s \in {"recordUpload_logo", "recordUpload_metadata"}
      succeeded == ok /\ (isInsert => unique)
      v == [u EXCEPT !.todo = Tail(u.todo),
                     !.fx = IF succeeded /\ isInsert THEN @ \cup {"upload"} ELSE @]
  IN
  /\ variant = "ultra"
  /\ u.todo # <<>>
  /\ uploads' = IF succeeded /\ isInsert
                THEN insertUpload(u.userId, transactionId, fileSize)
                ELSE uploads
  /\ token_assets' = IF succeeded /\ s = "recordTokenAsset"
                     THEN token_assets \cup
                            {[wallet_address |-> u.userId,
                              logo_transaction_id |-> u.logoResult,
                              metadata_transaction_id |-> u.metadataResult]}
                     ELSE token_assets
  /\ IF u.pc = "recording" /\ ~succeeded
     THEN /\ up' = [up EXCEPT ![r] = Rejected(v, "LedgerError")]
          /\ disk' = unlinked(u.metadataPath)
     ELSE /\ up' = [up EXCEPT ![r] = v]
          /\ UNCHANGED disk
  /\ UNCHANGED <<started, cachedUploader, clockMs, users, active_uploads, network,
                 poolVars, borrowerVars, rateVars>>

(***************************************************************************)
(* The upload services under concurrent requests.                          *)
(***************************************************************************)
\* The ledger is durable.  The service is running early in a UTC day:
\* identity 1 has been admitted as many times as its ceiling allows since
\* the day began (the calls have returned), the other identities are new.
AdmittedToday ==
  [i \in 1..Ceiling |-> [user_id |-> 1, request_time |-> CURRENT_TIMESTAMP(DayLen),
                         ip_address |-> 1]]

InitUpload ==
  /\ variant \in {"basic", "ultra"}
  /\ backend = IF variant = "basic" THEN "sqlite" ELSE "production"
  /\ configured = RATE_LIMIT_PER_MINUTE
  /\ maxConnections = UploadPoolSize
  /\ UltraFast_constructor
  /\ ConnectionPool_constructor
  /\ constructed = 0
  /\ held = [c \in Callers |-> NoHandle]
  /\ via = [c \in Callers |-> "none"]
  /\ pc = [c \in Callers |-> "idle"]
  /\ calls = 0
  /\ trip = NoTrip
  /\ now = DayLen + 1
  /\ rateLimits = [id \in Identities |-> <<>>]
  /\ rate_limits = AdmittedToday
  /\ RateCallsIdle
  /\ up = [r \in Requests |-> UploadIdle]
  /\ started = 0
  /\ cachedUploader = NoHandle
  /\ clockMs = 0
  /\ users = [id \in Identities |->
                IF id = 1
                THEN [NoRow EXCEPT !.present = TRUE, !.created_at = DayLen,
                                   !.last_activity = DayLen]
                ELSE NoRow]
  /\ uploads = {}
  /\ active_uploads = <<>>
  /\ token_assets = {}
  /\ receipts = {}
  /\ lateCalls = {}
  /\ disk = {}

NextUpload ==
  \/ \E r \in Requests, id \in Identities, f \in Files : Tracking_call(r, id, f)
  \/ \E r \in Requests, ok \in BOOLEAN : Tracking_createOrGetUser(r, ok)
  \/ \E r \in Requests : Tracking_checkRateLimit_select(r)
  \/ \E r \in Requests : Tracking_checkRateLimit_insert(r)
  \/ \E r \in Requests, ok \in BOOLEAN : Tracking_startUpload(r, ok)
  \/ \E r \in Requests, ok \in BOOLEAN : Tracking_getConnection_settled(r, ok)
  \/ \E r \in Requests, readable \in BOOLEAN : Tracking_upload(r, readable)
  \/ \E r \in Requests : Tracking_receipt(r)
  \/ \E r \in Requests : Tracking_timeout(r)
  \/ \E r \in Requests : Tracking_remoteError(r)
  \/ \E r \in Requests, ok \in BOOLEAN : Tracking_recordUpload_insert(r, ok)
  \/ \E r \in Requests, ok \in BOOLEAN : Tracking_recordUpload_update(r, ok)
  \/ \E r \in Requests, ok \in BOOLEAN : Tracking_completeUpload(r, ok)
  \/ \E r \in Requests, id \in Identities, f \in LogoUploads,
          parses \in BOOLEAN, sameMs \in BOOLEAN :
       Handler_createToken(r, id, f, parses, sameMs)
  \/ \E r \in Requests, sameMs \in BOOLEAN : MultiUser_writeMetadata(r, sameMs)
  \/ \E r \in Requests : MultiUser_return(r)
  \/ \E r \in Requests : MultiUser_catch(r)
  \/ \E r \in Requests, id \in Identities, f \in Files, sameMs \in BOOLEAN :
       Service_call(r, id, f, sameMs)
  \/ \E r \in Requests : Service_checkRateLimit_select(r)
  \/ \E r \in Requests : Service_checkRateLimit_insert(r)
  \/ \E r \in Requests, ok \in BOOLEAN : Service_createOrUpdateUser(r, ok)
  \/ \E r \in Requests, ok \in BOOLEAN : Service_getConnection_settled(r, ok)
  \/ \E r \in Requests, readable \in BOOLEAN : Service_upload(r, readable)
  \/ \E r \in Requests : Service_receipt(r)
  \/ \E r \in Requests : Service_timeout(r)
  \/ \E r \in Requests : Service_remoteError(r)
  \/ \E r \in Requests : Service_writeMetadata(r)
  \/ \E r \in Requests, ok \in BOOLEAN : Service_statement(r, ok)
  \/ \E call \in lateCalls, ok \in BOOLEAN : LateFinish(call, ok)

SpecUpload == InitUpload /\ [][NextUpload]_vars

(***************************************************************************)
(* Claims about the upload services.                                       *)
(***************************************************************************)
\* the upload call in slot r has ended by throwing the error of kind e
Failed(r, e) == up[r].pc = "failed" /\ up[r].err = e

\* C8: an upload call whose file fails validation aborts with no side
\* effects: it has recorded no rate-limit entry, created or touched no
\* identity row, written no tracking row, acquired no connection and issued
\* no remote upload.
C8_ValidationFailureHasNoEffect ==
  \A r \in Requests : Failed(r, "ValidationError") => up[r].fx = {}

\* C9: an upload call that the rate limiter denies aborts before a
\* connection is acquired or a remote upload issued, and has written nothing
\* to the ledger: no identity row created or touched, no rate-limit entry,
\* no Upload row, no tracking row.
C9_DenialHasNoEffect ==
  \A r \in Requests : Failed(r, "RateLimited") => up[r].fx = {}

\* the upload call in slot r has returned to its caller
HasReturned(r) == up[r].pc \in {"done", "failed", "uploaded", "threw"}

\* the places of an upload call at which it owns a pool handle
Owning == {"acquired", "upload", "recordUpload", "recordUpload_update",
           "completeUpload"}

\* C10: every connection an upload call obtains is released exactly once
\* before the call returns, on every exit path: a call has made as many
\* releases as it has obtained handles, less the one it owns now; it owns
\* one only between obtaining it and the end of the upload that uses it; it
\* owns none when it has returned.  When no call is in progress no handle
\* is lent out: every handle constructed is in the pool's idle list.
C10_ReleasedExactlyOnce ==
  /\ \A r \in Requests :
       /\ held[r] # NoHandle <=> up[r].pc \in Owning
       /\ up[r].acq = up[r].rel + (IF held[r] # NoHandle THEN 1 ELSE 0)
       /\ HasReturned(r) => held[r] = NoHandle /\ up[r].rel = up[r].acq
  /\ (\A r \in Requests : up[r].pc = "idle" \/ HasReturned(r)) =>
       /\ active = <<>>
       /\ Range(pool) = 1..constructed
       /\ NoDup(pool)

\* one call has returned its result and another has timed out, each after
\* obtaining a handle
C10_Witness ==
  \E r1, r2 \in Requests :
    /\ up[r1].pc = "done" /\ up[r1].rel >= 1
    /\ Failed(r2, "UploadTimeout") /\ up[r2].rel >= 1


\* C11: the remote upload is raced against the timeout.  A call whose
\* timeout fired first has returned to its caller, whatever becomes of the
\* remote call, and what it throws is the timeout error.
C11_TimeoutErrorReachesCaller ==
  \A r \in Requests :
    Failed(r, "UploadTimeout") => HasReturned(r) /\ up[r].thrown = "UploadTimeout"

\* the other half of C11: a remote upload that succeeds after its caller
\* timed out is recorded nowhere and raises nothing
C11_LateSuccessStep ==
  (\E call \in lateCalls : call \notin lateCalls' /\ call.id \in receipts')
    => UNCHANGED <<up, tables, disk>>
C11_LateSuccessIsIgnored == [][C11_LateSuccessStep]_vars


\* the remote uploads running on handle h: those a call is waiting for and
\* those whose caller has timed out
Outstanding(h) ==
  Cardinality({r \in Requests : up[r].pc = "upload" /\ held[r] = h})
    + Cardinality({call \in lateCalls : call.on = h})

\* C12: at every moment a pooled handle has at most one remote upload
\* outstanding on it, the uploads whose caller has timed out included.
C12_OneUploadPerHandle ==
  \A h \in 1..constructed : Outstanding(h) <= 1


\* C13: a call of uploadFileWithUserTracking that throws, for whatever
\* reason, has created no Upload row.
C13_FailedCallWritesNoUploadRow ==
  \A r \in Requests :
    (variant = "basic" /\ up[r].pc \in {"failed", "threw"}
       /\ up[r].thrown = "ReferenceError") => "upload" \notin up[r].fx

\* the last sentence of C13: Upload rows exist only for remote uploads that
\* returned a receipt
C13_RowsHaveReceipts == \A row \in uploads : row.transaction_id \in receipts


\* C14: in the multi-user pipeline (IrysUploadService.createTokenAssets,
\* createTokenAssetsMultiUser, POST /create-token) every temp file created
\* for a request -- the saved logo and the metadata file -- is gone from the
\* temp directory by the time the request returns, on every exit path.
IsRequest(u) == u.phase # "file"
Answered(r) == up[r].pc \in {"done", "failed"}
TempFiles(u) == {u.logoPath, u.metadataPath} \ {NoPath}

C14_ReturnStep ==
  \A r \in Requests :
    (~Answered(r) /\ Answered(r)' /\ IsRequest(up[r])) =>
       /\ TempFiles(up[r]) \cap disk' = {}
       /\ disk' \subseteq disk

SingleFiles == Files \cup {[exists |-> TRUE, ext |-> ".jpg", size |-> 1]}

\* fastUpload's validateFile: existence and the size limit
fast_validateFile(filePath) ==
  IF ~filePath.exists THEN "File not found"
  ELSE IF filePath.size > FAST_MAX_SIZE THEN "File too large"
  ELSE "ok"

\* Math.min
Min(a, b) == IF a < b THEN a ELSE b

\* FILE_TYPES[ext].category of irys-token-creator; "none" when the
\* extension is not in the table
FILE_TYPES_category(ext) ==
  IF ext \in {".jpg", ".jpeg", ".png", ".gif", ".webp", ".svg", ".bmp"} THEN "image"
  ELSE IF ext \in {".mp4", ".mov", ".webm"} THEN "video"
  ELSE IF ext \in {".mp3", ".wav", ".flac"} THEN "audio"
  ELSE IF ext = ".json" THEN "document"
  ELSE "none"

\* switch (fileType.category): maxAllowedSize
maxAllowedSize(category) ==
  CASE category = "image" -> Min(MAX_IMAGE_SIZE, MAX_UPLOAD_SIZE)
    [] category = "video" -> Min(MAX_VIDEO_SIZE, MAX_UPLOAD_SIZE)
    [] category = "audio" -> Min(MAX_AUDIO_SIZE, MAX_UPLOAD_SIZE)
    [] OTHER -> MAX_UPLOAD_SIZE

\* validateAndDetectFile: existence, FILE_TYPES[ext], the size limit of the
\* category
validateAndDetectFile(filePath) ==
  IF ~filePath.exists THEN "File not found"
  ELSE IF FILE_TYPES_category(filePath.ext) = "none" THEN "Unsupported file type"
  ELSE IF filePath.size > maxAllowedSize(FILE_TYPES_category(filePath.ext))
       THEN "File too large"
  ELSE "ok"

\* const metadataPath = './temp_metadata.json'
TokenUploader_metadataPath == <<"temp_metadata">>

\* const metadataPath = `./temp_metadata_${Date.now()}.json`
TokenCreator_metadataPath(ms) == <<"temp_metadata", ms>>

\* the call ends in failure: uploadTokenAssets rethrows the error,
\* createTokenAssets returns { success: false, error }
Single_Failed(u, e) ==
  Returned_to_caller([u EXCEPT !.pc = "failed", !.err = e,
                               !.thrown = IF variant = "creator" THEN "none" ELSE e])

\* fastUpload / uploadFile from the validation to the first await:
\* getOptimizedUploader() / getUploader() returns the kept uploader or
\* awaits the creation of one
Single_upload(u, valid) ==
  IF ~valid THEN Single_Failed(u, "ValidationError")
  ELSE [u EXCEPT !.pc = IF cachedUploader = NoHandle THEN "creating" ELSE "cached"]

\* uploadTokenAssets: the metadata file is written, then fastUpload(logoPath)
TokenUploader_call(r, logoPath) ==
  /\ variant = "uploader"
  /\ CanUpload(r)
  /\ started' = started + 1
  /\ disk' = disk \cup {TokenUploader_metadataPath}
  /\ up' = [up EXCEPT ![r] =
              Single_upload([UploadIdle EXCEPT !.file = logoPath, !.phase = "logo",
                                               !.metadataPath = TokenUploader_metadataPath,
                                               !.metadata =
                                                  metadataOf(logoPath, "image/png"),
                                               !.made = {"metadata"}],
                            fast_validateFile(logoPath) = "ok")]
  /\ UNCHANGED <<cachedUploader, clockMs, tables, network, poolVars, borrowerVars,
                 rateVars>>

\* createTokenAssets: validateAndDetectFile(logoPath), then
\* uploadFile(logoPath), which validates again
TokenCreator_call(r, logoPath) ==
  /\ variant = "creator"
  /\ CanUpload(r)
  /\ started' = started + 1
  /\ up' = [up EXCEPT ![r] =
              Single_upload([UploadIdle EXCEPT !.file = logoPath, !.phase = "logo",
                                               !.metadata =
                                                  metadataOf(logoPath, mime(logoPath.ext))],
                            validateAndDetectFile(logoPath) = "ok")]
  /\ UNCHANGED <<cachedUploader, clockMs, tables, network, disk, poolVars,
                 borrowerVars, rateVars>>

\* the await of getOptimizedUploader() / getUploader() ends: with the kept
\* uploader, with a new one (cachedUploader = await Uploader(..)), or with
\* the error of the creation.  Then fs.readFileSync(filePath) and
\* uploader.upload(fileData, { tags }) is awaited.  The metadata file can be
\* read while it is on disk.
Single_getUploader_settled(r, ok, readable) ==
  /\ variant \in {"uploader", "creator"}
  /\ up[r].pc \in {"creating", "cached"}
  /\ up[r].pc = "cached" => ok
  /\ up[r].phase = "metadata" => (readable <=> up[r].metadataPath \in disk)
  /\ IF up[r].pc = "creating" /\ ok
     THEN /\ constructed' = constructed + 1
          /\ cachedUploader' = constructed + 1
     ELSE UNCHANGED <<constructed, cachedUploader>>
  /\ up' = [up EXCEPT ![r] =
              IF ~ok THEN Single_Failed(up[r], "ConnectionError")
              ELSE IF ~readable THEN Single_Failed(up[r], "FileReadError")
              ELSE [up[r] EXCEPT !.pc = "upload"]]
  /\ UNCHANGED <<variant, maxConnections, pool, active, waiting, stats,
                 activeConnections, waitingQueue, held, via>>
  /\ UNCHANGED <<started, clockMs, tables, network, disk, borrowerVars, rateVars>>

\* uploadTokenAssets after a fastUpload returned: after the logo the
\* metadata file is written again and fastUpload(metadataPath) is called;
\* after the metadata fs.unlinkSync(metadataPath) and the result is returned
TokenUploader_receipt(r) ==
  /\ variant = "uploader"
  /\ up[r].pc = "upload"
  /\ receipts' = receipts \cup {<<r, up[r].phase>>}
  /\ IF up[r].phase = "logo"
     THEN /\ disk' = disk \cup {up[r].metadataPath}
          /\ up' = [up EXCEPT ![r] =
                      Single_upload([up[r] EXCEPT !.logoResult = <<r, "logo">>,
                                                  !.phase = "metadata",
                                                  !.file = MetadataFile],
                                    fast_validateFile(MetadataFile) = "ok")]
     ELSE /\ disk' = unlinked(up[r].metadataPath)
          /\ up' = [up EXCEPT ![r] =
                      IF up[r].metadataPath \in disk
                      THEN Returned_to_caller(
                             [up[r] EXCEPT !.pc = "done",
                                           !.metadataResult = <<r, "metadata">>])
                      ELSE Single_Failed(up[r], "UnlinkError")]
  /\ UNCHANGED <<started, cachedUploader, clockMs, tables, lateCalls, poolVars,
                 borrowerVars, rateVars>>

\* createTokenAssets after an uploadFile returned: after the logo the
\* metadata file is written and uploadFile(metadataPath) is called; after
\* the metadata fs.unlinkSync(metadataPath) and the result is returned
TokenCreator_receipt(r, sameMs) ==
  /\ variant = "creator"
  /\ up[r].pc = "upload"
  /\ receipts' = receipts \cup {<<r, up[r].phase>>}
  /\ IF up[r].phase = "logo"
     THEN /\ clockMs' = IF sameMs THEN clockMs ELSE clockMs + 1
          /\ disk' = disk \cup {TokenCreator_metadataPath(clockMs')}
          /\ up' = [up EXCEPT ![r] =
                      Single_upload([up[r] EXCEPT !.logoResult = <<r, "logo">>,
                                                  !.phase = "metadata",
                                                  !.file = MetadataFile,
                                                  !.metadataPath =
                                                     TokenCreator_metadataPath(clockMs'),
                                                  !.made = {"metadata"}],
                                    validateAndDetectFile(MetadataFile) = "ok")]
     ELSE /\ sameMs
          /\ clockMs' = clockMs
          /\ disk' = unlinked(up[r].metadataPath)
          /\ up' = [up EXCEPT ![r] =
                      IF up[r].metadataPath \in disk
                      THEN Returned_to_caller(
                             [up[r] EXCEPT !.pc = "done",
                                           !.metadataResult = <<r, "metadata">>])
                      ELSE Single_Failed(up[r], "UnlinkError")]
  /\ UNCHANGED <<started, cachedUploader, tables, lateCalls, poolVars, borrowerVars,
                 rateVars>>

\* uploadFile: the timeout fires first, the remote call keeps running
TokenCreator_timeout(r) ==
  /\ variant = "creator"
  /\ up[r].pc = "upload"
  /\ lateCalls' = lateCalls \cup {[on |-> cachedUploader, by |-> r,
                                   id |-> <<r, up[r].phase>>]}
  /\ up' = [up EXCEPT ![r] = Single_Failed(up[r], "UploadTimeout")]
  /\ UNCHANGED <<started, cachedUploader, clockMs, tables, receipts, disk, poolVars,
                 borrowerVars, rateVars>>

\* the remote upload rejects
Single_remoteError(r) ==
  /\ variant \in {"uploader", "creator"}
  /\ up[r].pc = "upload"
  /\ up' = [up EXCEPT ![r] = Single_Failed(up[r], "RemoteUploadError")]
  /\ UNCHANGED <<started, cachedUploader, clockMs, tables, network, disk, poolVars,
                 borrowerVars, rateVars>>

InitSingle ==
  /\ variant \in {"uploader", "creator"}
  /\ maxConnections = UploadPoolSize
  /\ UltraFast_constructor
  /\ ConnectionPool_constructor
  /\ constructed = 0
  /\ held = [c \in Callers |-> NoHandle]
  /\ via = [c \in Callers |-> "none"]
  /\ pc = [c \in Callers |-> "idle"]
  /\ calls = 0
  /\ trip = NoTrip
  /\ backend = "json"
  /\ configured = RATE_LIMIT_PER_MINUTE
  /\ RateConstructed
  /\ UploadsConstructed

NextSingle ==
  \/ \E r \in Requests, f \in SingleFiles : TokenUploader_call(r, f)
  \/ \E r \in Requests, f \in SingleFiles : TokenCreator_call(r, f)
  \/ \E r \in Requests, ok \in BOOLEAN, readable \in BOOLEAN :
       Single_getUploader_settled(r, ok, readable)
  \/ \E r \in Requests : TokenUploader_receipt(r)
  \/ \E r \in Requests, sameMs \in BOOLEAN : TokenCreator_receipt(r, sameMs)
  \/ \E r \in Requests : TokenCreator_timeout(r)
  \/ \E r \in Requests : Single_remoteError(r)
  \/ \E call \in lateCalls, ok \in BOOLEAN : LateFinish(call, ok)

SpecSingle == InitSingle /\ [][NextSingle]_vars

\* C15: in the single-uploader token creators (createTokenAssets of
\* irys-token-creator, uploadTokenAssets of token-creator-uploader) the
\* metadata temp file written for a request is deleted on every exit path:
\* after the call returns or throws, no metadata temp file of that request
\* remains on disk.
C15_ReturnStep ==
  \A r \in Requests :
    (~Answered(r) /\ Answered(r)') =>
       /\ up[r].metadataPath # NoPath => up[r].metadataPath \notin disk'
       /\ disk' \subseteq disk

C15_MetadataFileGoneAtReturn == [][C15_ReturnStep]_vars


\* C16: recordUpload is atomic with respect to concurrent readers and
\* writers: in no reachable state, the states between the callbacks of a
\* running recordUpload and after a failure of its second statement
\* included, is there an Upload row whose count and size increment is
\* missing from the identity's counters, or an increment without its row.
RowsOf(id) == {row \in uploads : row.user_id = id}

RECURSIVE TotalSize(_)
TotalSize(rows) ==
  IF rows = {} THEN 0
  ELSE LET row == CHOOSE x \in rows : TRUE
       IN row.file_size + TotalSize(rows \ {row})

C16_RowsMatchCounters ==
  \A id \in Identities :
    /\ users[id].total_uploads = Cardinality(RowsOf(id))
    /\ users[id].total_size_bytes = TotalSize(RowsOf(id))


(***************************************************************************)
(* The ledger operations createOrGetUser and recordUpload called directly, *)
(* in any order, on each backend: JSONUserManager                          *)
(* (src/src/user-json-manager.js 70-119), UserManager                      *)
(* (src/src/user-database.js 142-185) and ProductionDatabase               *)
(* (src/src/multi-user-api.js 377-422).                                    *)
(***************************************************************************)
\* the transaction ids the callers pass
TransactionIds == {<<n, "file">> : n \in 1..NumTransactionIds}

\* the row a recordUpload stores: id is crypto.randomUUID() in the JSON
\* store and INTEGER PRIMARY KEY AUTOINCREMENT in the tables; index is the
\* position of the record among the identity's records (the array
\* this.uploads[userId] of the JSON store, rowid order in the tables);
\* created_at is new Date().toISOString() / CURRENT_TIMESTAMP
storedUpload(userId, transactionId, fileSize) ==
  uploads \cup {[id |-> Cardinality(uploads) + 1, user_id |-> userId,
                 transaction_id |-> transactionId, file_size |-> fileSize,
                 index |-> Cardinality({row \in uploads : row.user_id = userId}) + 1,
                 created_at |-> now]}

\* createOrGetUser / createOrUpdateUser: one synchronous function in the
\* JSON store, one upsert statement in the databases
Ledger_createOrGetUser(userId) ==
  /\ users' = upsertUser(userId)
  /\ UNCHANGED <<up, started, cachedUploader, clockMs, uploads, active_uploads,
                 token_assets, network, disk, poolVars, borrowerVars, rateVars>>

\* JSONUserManager.recordUpload: the record is pushed; the statistics are
\* updated if (this.users[userId]); saveData
JSON_recordUpload(userId, transactionId, fileSize) ==
  /\ backend = "json"
  /\ started < MaxRecords
  /\ started' = started + 1
  /\ uploads' = storedUpload(userId, transactionId, fileSize)
  /\ users' = updateUserStats(userId, fileSize)
  /\ UNCHANGED <<up, cachedUploader, clockMs, active_uploads, token_assets, network,
                 disk, poolVars, borrowerVars, rateVars>>

\* recordUpload of a database: the INSERT runs.  uploads (ProductionDatabase)
\* has transaction_id UNIQUE, upload_history (UserManager) has not; no
\* connection sets PRAGMA foreign_keys, so the user row need not exist.
\* On an error the promise is rejected.  Otherwise UserManager issues its
\* UPDATE; the callback of ProductionDatabase throws at `this.db.run` and
\* the promise is never settled.
Ledger_recordUpload_insert(r, userId, transactionId, fileSize, ok) ==
  LET unique == \A row \in uploads : row.transaction_id # transactionId
      succeeded == ok /\ (backend = "production" => unique)
  IN
  /\ backend \in {"sqlite", "production"}
  /\ CanUpload(r)
  /\ started < MaxRecords
  /\ started' = started + 1
  /\ uploads' = IF succeeded THEN storedUpload(userId, transactionId, fileSize)
                ELSE uploads
  /\ up' = [up EXCEPT ![r] =
              IF succeeded /\ backend = "sqlite"
              THEN [UploadIdle EXCEPT !.pc = "recordUpload_update",
                                      !.userId = userId,
                                      !.file = [NoFile EXCEPT !.size = fileSize]]
              ELSE UploadIdle]
  /\ UNCHANGED <<cachedUploader, clockMs, users, active_uploads, token_assets, network,
                 disk, poolVars, borrowerVars, rateVars>>

\* UserManager.recordUpload: the UPDATE user_sessions runs and the promise
\* is settled
Ledger_recordUpload_update(r, ok) ==
  /\ backend = "sqlite"
  /\ up[r].pc = "recordUpload_update"
  /\ users' = IF ok THEN updateUserStats(up[r].userId, up[r].file.size) ELSE users
  /\ up' = [up EXCEPT ![r] = UploadIdle]
  /\ UNCHANGED <<started, cachedUploader, clockMs, uploads, active_uploads,
                 token_assets, network, disk, poolVars, borrowerVars, rateVars>>

InitLedger ==
  /\ variant = "basic"
  /\ backend \in {"json", "sqlite", "production"}
  /\ configured = RATE_LIMIT_PER_MINUTE
  /\ maxConnections = UploadPoolSize
  /\ UltraFast_constructor
  /\ ConnectionPool_constructor
  /\ constructed = 0
  /\ held = [c \in Callers |-> NoHandle]
  /\ via = [c \in Callers |-> "none"]
  /\ pc = [c \in Callers |-> "idle"]
  /\ calls = 0
  /\ trip = NoTrip
  /\ RateConstructed
  /\ UploadsConstructed

NextLedger ==
  \/ \E id \in Identities : Ledger_createOrGetUser(id)
  \/ \E id \in Identities, t \in TransactionIds, size \in 1..MAX_UPLOAD_SIZE :
       JSON_recordUpload(id, t, size)
  \/ \E r \in Requests, id \in Identities, t \in TransactionIds,
        size \in 1..MAX_UPLOAD_SIZE, ok \in BOOLEAN :
       Ledger_recordUpload_insert(r, id, t, size, ok)
  \/ \E r \in Requests, ok \in BOOLEAN : Ledger_recordUpload_update(r, ok)

SpecLedger == InitLedger /\ [][NextLedger]_vars

\* C17: after any sequence of createOrGetUser and recordUpload calls on
\* JSONUserManager, in any order and for any identities, every identity
\* that has Upload records has a user record whose totalUploads is the
\* number of its records and whose totalSizeBytes is the sum of their sizes.
C17_JsonRecordsMatchUser ==
  backend = "json" =>
    \A id \in Identities : RowsOf(id) # {} =>
       /\ users[id].present
       /\ users[id].total_uploads = Cardinality(RowsOf(id))
       /\ users[id].total_size_bytes = TotalSize(RowsOf(id))

\* C18: in every backend a recordUpload with a transaction id that is
\* already recorded fails and leaves the ledger unchanged, so that no two
\* Upload rows have the same transaction id.
C18_TransactionIdsUnique ==
  \A a, b \in uploads : a.transaction_id = b.transaction_id => a = b


\* C19: in every reachable state every TokenAsset row references a logo
\* transaction id and a metadata transaction id that both exist as Upload
\* rows; recording a TokenAsset fails when a referenced Upload is absent,
\* for example when one of the recordUpload calls issued with it fails.
Recorded(transactionId) == \E row \in uploads : row.transaction_id = transactionId

C19_TokenAssetsReferenceUploads ==
  \A asset \in token_assets :
    /\ Recorded(asset.logo_transaction_id)
    /\ Recorded(asset.metadata_transaction_id)


\* C20: when createTokenAssets has uploaded the primary asset and the
\* upload of the metadata document then fails, the call fails with an
\* error, the Upload row of the primary asset is in the ledger afterwards,
\* and no TokenAsset row has been created.
MetadataUploadFailed(r) ==
  /\ up[r].pc = "failed"
  /\ up[r].logoResult # NoReceipt
  /\ up[r].metadataResult = NoReceipt

C20_PrimaryRowPersists ==
  \A r \in Requests : MetadataUploadFailed(r) =>
     /\ up[r].thrown # "none"
     /\ Recorded(up[r].logoResult)
     /\ \A asset \in token_assets : asset.logo_transaction_id # up[r].logoResult


\* C21: for every supported primary-asset type the metadata document built
\* by token-asset creation declares as its file type
\* (properties.files[0].type) the type detected from the extension of the
\* primary asset, never a fixed default.
SupportedLogoTypes == {".jpg", ".jpeg", ".png", ".gif", ".webp"}

C21_DeclaredTypeIsDetected ==
  \A r \in Requests :
    (up[r].metadata # NoMetadata /\ up[r].metadata.logo \in SupportedLogoTypes) =>
       up[r].metadata.type = mime(up[r].metadata.logo)


(***************************************************************************)
(* The file validators applied to files of every kind:                     *)
(* IrysUploadService.validateFile (src/src/multi-user-api.js 662-690),     *)
(* validateAndDetectFile (src/unnamed/part_004 136-177) and the validation *)
(* step of uploadFileWithUserTracking (src/unnamed/part_001 107-122).      *)
(***************************************************************************)
\* the files a validator is called with: a path with nothing behind it, and
\* files of every size from empty to beyond the largest limit, with an
\* extension of each category and an unsupported one
ValidatedFiles ==
  {[exists |-> FALSE, ext |-> ".png", size |-> 0]}
    \cup [exists : {TRUE}, ext : {".png", ".mp4", ".mp3", ".json", ".exe"},
          size : 0..MaxFileSize]

\* what a validator answered for a file
Validated(validator, filePath, result) ==
  [UploadIdle EXCEPT !.pc = "validated", !.phase = validator, !.file = filePath,
                     !.err = result]

\* this.validateFile(filePath)
Validate_validateFile(r, filePath) ==
  /\ CanUpload(r)
  /\ up' = [up EXCEPT ![r] = Validated("validateFile", filePath,
                                       validateFile(filePath))]
  /\ UNCHANGED <<started, cachedUploader, clockMs, tables, network, disk, poolVars,
                 borrowerVars, rateVars>>

\* validateAndDetectFile(filePath)
Validate_validateAndDetectFile(r, filePath) ==
  /\ CanUpload(r)
  /\ up' = [up EXCEPT ![r] = Validated("validateAndDetectFile", filePath,
                                       validateAndDetectFile(filePath))]
  /\ UNCHANGED <<started, cachedUploader, clockMs, tables, network, disk, poolVars,
                 borrowerVars, rateVars>>

\* step 3 of uploadFileWithUserTracking(filePath, ..)
Validate_tracking(r, filePath) ==
  /\ CanUpload(r)
  /\ up' = [up EXCEPT ![r] = Validated("uploadFileWithUserTracking", filePath,
                                       Tracking_validate(filePath))]
  /\ UNCHANGED <<started, cachedUploader, clockMs, tables, network, disk, poolVars,
                 borrowerVars, rateVars>>

InitValidate ==
  /\ variant = "basic"
  /\ backend = "json"
  /\ configured = RATE_LIMIT_PER_MINUTE
  /\ maxConnections = UploadPoolSize
  /\ UltraFast_constructor
  /\ ConnectionPool_constructor
  /\ constructed = 0
  /\ held = [c \in Callers |-> NoHandle]
  /\ via = [c \in Callers |-> "none"]
  /\ pc = [c \in Callers |-> "idle"]
  /\ calls = 0
  /\ trip = NoTrip
  /\ RateConstructed
  /\ UploadsConstructed

NextValidate ==
  \/ \E r \in Requests, f \in ValidatedFiles : Validate_validateFile(r, f)
  \/ \E r \in Requests, f \in ValidatedFiles : Validate_validateAndDetectFile(r, f)
  \/ \E r \in Requests, f \in ValidatedFiles : Validate_tracking(r, f)

SpecValidate == InitValidate /\ [][NextValidate]_vars

\* the limit a validator has for an extension it supports
EffectiveLimit(validator, ext) ==
  IF validator = "validateFile" THEN maxSize(ext)
  ELSE IF validator = "validateAndDetectFile"
       THEN maxAllowedSize(FILE_TYPES_category(ext))
  ELSE MAX_UPLOAD_SIZE

\* the file was there and of a supported type
TypeAccepted(u) ==
  u.pc = "validated" /\ u.err \notin {"File not found", "Unsupported file type"}

\* C22: size validation has an inclusive boundary: for every supported type
\* with effective limit L a non-empty file of size s < L passes and a file
\* of size s >= L, s = L included, is rejected as too large.
C22_InclusiveBoundary ==
  \A r \in Requests :
    (TypeAccepted(up[r]) /\ up[r].phase \in {"validateFile", "validateAndDetectFile"}) =>
       LET L == EffectiveLimit(up[r].phase, up[r].file.ext)
           size == up[r].file.size
       IN /\ (0 < size /\ size < L) => up[r].err = "ok"
          /\ size >= L => up[r].err = "File too large"

\* C23: for every category the limit that validation enforces is
\* min(per-category ceiling, MAX_UPLOAD_SIZE): no validator accepts a file
\* larger than the global MAX_UPLOAD_SIZE, whatever its category.
C23_GlobalMaximumCaps ==
  \A r \in Requests :
    (up[r].pc = "validated" /\ up[r].err = "ok") =>
       up[r].file.size <= MAX_UPLOAD_SIZE

\* C24: a zero-byte file is rejected by validation whatever its extension.
C24_EmptyFileRejected ==
  \A r \in Requests :
    (up[r].pc = "validated" /\ up[r].file.exists /\ up[r].file.size = 0) =>
       up[r].err # "ok"


(***************************************************************************)
(* The readers of the ledger next to its writers, called directly in any   *)
(* order on each backend: getUserStats and getRecentUploads of             *)
(* JSONUserManager (src/src/user-json-manager.js 162-184) and of           *)
(* UserManager (src/src/user-database.js 274-318), getUserDashboard of     *)
(* IrysUploadService over ProductionDatabase                               *)
(* (src/src/multi-user-api.js 498-523, 902-935).  A reader keeps what it   *)
(* returned in its slot until the caller takes it.                         *)
(***************************************************************************)
\* the last instant of the clock while the readers are explored
DashboardMaxTime == 21

\* calls of the ledger, reads included, while the readers are explored
MaxDashboardCalls == 4

\* the token_assets rows of a wallet
TokensOf(id) == {t \in token_assets : t.wallet_address = id}

\* recordTokenAsset of ProductionDatabase: the INSERT INTO token_assets; no
\* connection sets PRAGMA foreign_keys, so neither the user row nor the
\* Upload rows need exist
Ledger_recordTokenAsset(walletAddress, logo, metadata, ok) ==
  /\ backend = "production"
  /\ started < MaxRecords
  /\ started' = started + 1
  /\ token_assets' =
       IF ok
       THEN token_assets \cup {[id |-> Cardinality(token_assets) + 1,
                                wallet_address |-> walletAddress,
                                logo_transaction_id |-> logo,
                                metadata_transaction_id |-> metadata]}
       ELSE token_assets
  /\ UNCHANGED <<up, cachedUploader, clockMs, users, uploads, active_uploads,
                 network, disk, poolVars, borrowerVars, rateVars>>

\* the slot is free for a reader
CanRead(r) == up[r].pc = "idle" /\ started < MaxDashboardCalls

\* what a reader hands to its caller
Read(reader, userId, result) ==
  [UploadIdle EXCEPT !.pc = "read", !.phase = reader, !.userId = userId,
                     !.result = result]

\* getUserStats returned null, getUserDashboard of the database undefined
NoStats == [present |-> FALSE, totalUploads |-> 0, totalSizeBytes |-> 0,
            tokenCount |-> 0]

\* JSONUserManager.getUserStats and the SELECT of UserManager.getUserStats:
\* the counters of the user record
getUserStats(userId) ==
  IF ~users[userId].present THEN NoStats
  ELSE [present |-> TRUE, totalUploads |-> users[userId].total_uploads,
        totalSizeBytes |-> users[userId].total_size_bytes, tokenCount |-> 0]

\* ProductionDatabase.getUserDashboard:
\*   SELECT u.total_uploads, u.total_size_bytes, COUNT(ta.id) as token_count
\*   FROM users u LEFT JOIN uploads up ON ... LEFT JOIN token_assets ta ON ...
\*   WHERE u.wallet_address = ? GROUP BY u.wallet_address
\* The joined rows of a user are the pairs of one of its uploads (the NULL
\* upload when it has none) and one of its token assets; COUNT(ta.id)
\* counts the joined rows that have a token asset.
Database_getUserDashboard(walletAddress) ==
  LET joinedUploads == IF RowsOf(walletAddress) = {} THEN {0}
                       ELSE {row.id : row \in RowsOf(walletAddress)}
      joined == joinedUploads \X {t.id : t \in TokensOf(walletAddress)}
  IN IF ~users[walletAddress].present THEN NoStats
     ELSE [present |-> TRUE,
           totalUploads |-> users[walletAddress].total_uploads,
           totalSizeBytes |-> users[walletAddress].total_size_bytes,
           tokenCount |-> Cardinality(joined)]

\* userUploads.sort((a, b) => new Date(b.createdAt) - new Date(a.createdAt)):
\* the array this.uploads[userId] itself is sorted, newest first, records
\* of one instant keeping their order
sorted(userId) ==
  LET rows == RowsOf(userId)
      before(a, b) == \/ a.created_at > b.created_at
                      \/ a.created_at = b.created_at /\ a.index < b.index
      place(row) == Cardinality({other \in rows : before(other, row)}) + 1
  IN (uploads \ rows) \cup {[row EXCEPT !.index = place(row)] : row \in rows}

\* the transaction ids of the identity's records, in array (rowid) order
inOrder(rows) ==
  [i \in 1..Cardinality(rows) |->
     (CHOOSE row \in rows : row.index = i).transaction_id]

\* JSONUserManager.getUserStats
JSON_getUserStats(r, userId) ==
  /\ backend = "json"
  /\ CanRead(r)
  /\ up' = [up EXCEPT ![r] = Read("getUserStats", userId, getUserStats(userId))]
  /\ started' = started + 1
  /\ UNCHANGED <<cachedUploader, clockMs, tables, network, disk,
                 poolVars, borrowerVars, rateVars>>

\* JSONUserManager.getRecentUploads
JSON_getRecentUploads(r, userId) ==
  /\ backend = "json"
  /\ CanRead(r)
  /\ uploads' = sorted(userId)
  /\ up' = [up EXCEPT ![r] =
              Read("getRecentUploads", userId,
                   inOrder({row \in uploads' : row.user_id = userId}))]
  /\ started' = started + 1
  /\ UNCHANGED <<cachedUploader, clockMs, users, active_uploads,
                 token_assets, network, disk, poolVars, borrowerVars, rateVars>>

\* UserManager.getUserStats: one SELECT
SQLite_getUserStats(r, userId) ==
  /\ backend = "sqlite"
  /\ CanRead(r)
  /\ up' = [up EXCEPT ![r] = Read("getUserStats", userId, getUserStats(userId))]
  /\ started' = started + 1
  /\ UNCHANGED <<cachedUploader, clockMs, tables, network, disk,
                 poolVars, borrowerVars, rateVars>>

\* UserManager.getRecentUploads: SELECT ... ORDER BY created_at DESC
SQLite_getRecentUploads(r, userId) ==
  /\ backend = "sqlite"
  /\ CanRead(r)
  /\ up' = [up EXCEPT ![r] =
              Read("getRecentUploads", userId,
                   inOrder({row \in sorted(userId) : row.user_id = userId}))]
  /\ started' = started + 1
  /\ UNCHANGED <<cachedUploader, clockMs, tables, network, disk,
                 poolVars, borrowerVars, rateVars>>

\* IrysUploadService.getUserDashboard up to the end of its Promise.all: the
\* SELECT of db.getUserDashboard has answered (the rows of getUserTokens
\* are the recentTokens of the result and are left out).  With a row the
\* call returns it; without one it goes on to createOrUpdateUser.
Service_getUserDashboard(r, walletAddress) ==
  LET dashboard == Database_getUserDashboard(walletAddress) IN
  /\ backend = "production"
  /\ CanRead(r)
  /\ up' = [up EXCEPT ![r] =
              IF dashboard.present
              THEN Read("getUserDashboard", walletAddress, dashboard)
              ELSE [UploadIdle EXCEPT !.pc = "getUserDashboard_createUser",
                                      !.phase = "getUserDashboard",
                                      !.userId = walletAddress]]
  /\ started' = started + 1
  /\ UNCHANGED <<cachedUploader, clockMs, tables, network, disk,
                 poolVars, borrowerVars, rateVars>>

\* if (!dashboard): await this.db.createOrUpdateUser(walletAddress), then
\* the zero dashboard is returned; an error of the statement is rethrown
Service_getUserDashboard_createUser(r, ok) ==
  /\ up[r].pc = "getUserDashboard_createUser"
  /\ users' = IF ok THEN upsertUser(up[r].userId) ELSE users
  /\ up' = [up EXCEPT ![r] =
              IF ok
              THEN Read("getUserDashboard", up[r].userId,
                        [NoStats EXCEPT !.present = TRUE])
              ELSE [UploadIdle EXCEPT !.pc = "threw", !.phase = "getUserDashboard",
                                      !.userId = up[r].userId,
                                      !.thrown = "LedgerError"]]
  /\ UNCHANGED <<started, cachedUploader, clockMs, uploads, active_uploads,
                 token_assets, network, disk, poolVars, borrowerVars, rateVars>>

\* the caller has taken what the reader returned or threw
Reader_taken(r) ==
  /\ up[r].pc \in {"read", "threw"}
  /\ up[r].phase \in {"getUserStats", "getRecentUploads", "getUserDashboard",
                      "recordUpload"}
  /\ up' = [up EXCEPT ![r] = UploadIdle]
  /\ UNCHANGED <<started, cachedUploader, clockMs, tables, network, disk,
                 poolVars, borrowerVars, rateVars>>

InitDashboard ==
  /\ variant = "basic"
  /\ backend \in {"json", "sqlite", "production"}
  /\ configured = RATE_LIMIT_PER_MINUTE
  /\ maxConnections = UploadPoolSize
  /\ UltraFast_constructor
  /\ ConnectionPool_constructor
  /\ constructed = 0
  /\ held = [c \in Callers |-> NoHandle]
  /\ via = [c \in Callers |-> "none"]
  /\ pc = [c \in Callers |-> "idle"]
  /\ calls = 0
  /\ trip = NoTrip
  /\ RateConstructed
  /\ UploadsConstructed

\* the uploads the callers record: transaction n of a file of n bytes
DashboardUploads == {[transaction_id |-> t, file_size |-> t[1]] : t \in TransactionIds}

\* the token assets the callers record: the logo and the metadata document
\* of token n
DashboardTokens == {[logo |-> <<n, "logo">>, metadata |-> <<n, "metadata">>] :
                      n \in 1..NumTransactionIds}

NextDashboard ==
  \/ now < DashboardMaxTime /\ Tick
  \/ \E id \in Identities : Ledger_createOrGetUser(id)
  \/ \E id \in Identities, u \in DashboardUploads :
       JSON_recordUpload(id, u.transaction_id, u.file_size)
  \/ \E r \in Requests, id \in Identities, u \in DashboardUploads :
       Ledger_recordUpload_insert(r, id, u.transaction_id, u.file_size, TRUE)
  \/ \E r \in Requests : Ledger_recordUpload_update(r, TRUE)
  \/ \E id \in Identities, t \in DashboardTokens :
       Ledger_recordTokenAsset(id, t.logo, t.metadata, TRUE)
  \/ \E r \in Requests, id \in Identities : JSON_getUserStats(r, id)
  \/ \E r \in Requests, id \in Identities : JSON_getRecentUploads(r, id)
  \/ \E r \in Requests, id \in Identities : SQLite_getUserStats(r, id)
  \/ \E r \in Requests, id \in Identities : SQLite_getRecentUploads(r, id)
  \/ \E r \in Requests, id \in Identities : Service_getUserDashboard(r, id)
  \/ \E r \in Requests, ok \in BOOLEAN : Service_getUserDashboard_createUser(r, ok)
  \/ \E r \in Requests : Reader_taken(r)

SpecDashboard == InitDashboard /\ [][NextDashboard]_vars

\* C25: the dashboard of an identity reports as tokenCount the number of
\* its TokenAsset rows and as totalUploads and totalSizeBytes the number
\* and the total size of its Upload rows, however many rows of either kind
\* it has.
C25_ReadStep ==
  \A r \in Requests :
    (up[r].pc = "idle" /\ up'[r].pc = "read" /\ up'[r].phase = "getUserDashboard") =>
       LET id == up'[r].userId IN
       /\ up'[r].result.tokenCount = Cardinality(TokensOf(id))
       /\ up'[r].result.totalUploads = Cardinality(RowsOf(id))
       /\ up'[r].result.totalSizeBytes = TotalSize(RowsOf(id))

C25_DashboardCounts == [][C25_ReadStep]_vars

\* the part of C25 about token assets alone
C25_TokenCount ==
  [][\A r \in Requests :
       (up[r].pc = "idle" /\ up'[r].pc = "read"
          /\ up'[r].phase = "getUserDashboard") =>
         up'[r].result.tokenCount = Cardinality(TokensOf(up'[r].userId))]_vars

\* a step of a reader in slot r
ReaderStep(r) ==
  /\ up'[r] # up[r]
  /\ up'[r].phase \in {"getUserStats", "getRecentUploads", "getUserDashboard"}

\* C26: the dashboard and statistics queries are read-only: no step of
\* getUserDashboard, getUserStats or getRecentUploads changes the ledger,
\* for an identity the ledger knows and for one it does not.
C26_ReadersReadOnly ==
  [][\A r \in Requests : ReaderStep(r) => UNCHANGED tables]_vars

\* the part of C26 about the readers of the JSON store
C26_JsonReadersReadOnly ==
  [][\A r \in Requests : (backend = "json" /\ ReaderStep(r)) => UNCHANGED tables]_vars

\* C27: createOrGetUser / createOrUpdateUser is idempotent on every
\* backend: for an identity without a record it creates one with both
\* totals 0; for an identity with a record it changes the last-activity
\* time alone: the counters, the creation time, the records of the other
\* identities, the Upload rows and the rate-limit records stay as they
\* are.  A second call therefore leaves what the first one left, the
\* last-activity time apart.
C27_CallStep ==
  \A id \in Identities :
    Ledger_createOrGetUser(id) =>
      /\ users'[id].present
      /\ ~users[id].present =>
           users'[id].total_uploads = 0 /\ users'[id].total_size_bytes = 0
      /\ users[id].present =>
           users'[id] = [users[id] EXCEPT !.last_activity = users'[id].last_activity]
      /\ \A other \in Identities \ {id} : users'[other] = users[other]
      /\ UNCHANGED <<uploads, active_uploads, token_assets, rateLimits, rate_limits>>

C27_CreateOrGetUserIdempotent == [][C27_CallStep]_vars

\* a user of the JSON store with recorded uploads whose last activity is
\* later than its creation and than each of its records: createOrGetUser
\* has been called for it since
C27_Witness ==
  /\ backend = "json"
  /\ \E id \in Identities :
       /\ users[id].present
       /\ users[id].total_uploads > 0
       /\ users[id].created_at < users[id].last_activity
       /\ \A row \in RowsOf(id) : row.created_at < users[id].last_activity

\* C28: pool round trip of UltraFastConnectionPool: from any reachable
\* state of the pool with no suspended acquirers, after M getConnection
\* calls (M <= maxConnections) followed by M releaseConnection calls of the
\* handles obtained, the idle list has the size it had before the first of
\* the M acquires.
C28_RoundTrip ==
  (variant = "ultra" /\ trip.phase = "done") => Len(pool) = trip.before

\* C28 as amended: the same, from a state whose idle list holds at least M
\* handles.
C28_RoundTripOfIdleHandles ==
  (variant = "ultra" /\ trip.phase = "done" /\ trip.before >= trip.got) =>
     Len(pool) = trip.before

\* two idle handles have been taken and given back
C28_Witness ==
  /\ variant = "ultra"
  /\ trip.phase = "done"
  /\ trip.got = 2
  /\ trip.before >= 2

(***************************************************************************)
(* uploadFileWithUserTracking (src/unnamed/part_001 84-207) called         *)
(* directly on a fresh SQLite ledger, for each value the environment may   *)
(* configure as RATE_LIMIT_PER_MINUTE (src/unnamed/part_001 20-27,         *)
(* src/docs/README-MULTIUSER.md 21-28).                                    *)
(***************************************************************************)
\* the largest ceiling configured
MaxConfigured == 3

\* parseInt(process.env.RATE_LIMIT_PER_MINUTE) || 60
ConfiguredCeilings == 1..MaxConfigured

InitConfigured ==
  /\ variant = "basic"
  /\ backend = "sqlite"
  /\ configured \in ConfiguredCeilings
  /\ maxConnections = UploadPoolSize
  /\ UltraFast_constructor
  /\ ConnectionPool_constructor
  /\ constructed = 0
  /\ held = [c \in Callers |-> NoHandle]
  /\ via = [c \in Callers |-> "none"]
  /\ pc = [c \in Callers |-> "idle"]
  /\ calls = 0
  /\ trip = NoTrip
  /\ RateConstructed
  /\ UploadsConstructed

NextConfigured ==
  \/ \E r \in Requests, id \in Identities, f \in Files : Tracking_call(r, id, f)
  \/ \E r \in Requests, ok \in BOOLEAN : Tracking_createOrGetUser(r, ok)
  \/ \E r \in Requests : Tracking_checkRateLimit_select(r)
  \/ \E r \in Requests : Tracking_checkRateLimit_insert(r)
  \/ \E r \in Requests, ok \in BOOLEAN : Tracking_startUpload(r, ok)
  \/ \E r \in Requests, ok \in BOOLEAN : Tracking_getConnection_settled(r, ok)
  \/ \E r \in Requests, readable \in BOOLEAN : Tracking_upload(r, readable)
  \/ \E r \in Requests : Tracking_receipt(r)
  \/ \E r \in Requests : Tracking_timeout(r)
  \/ \E r \in Requests : Tracking_remoteError(r)
  \/ \E r \in Requests, ok \in BOOLEAN : Tracking_recordUpload_insert(r, ok)
  \/ \E r \in Requests, ok \in BOOLEAN : Tracking_recordUpload_update(r, ok)
  \/ \E r \in Requests, ok \in BOOLEAN : Tracking_completeUpload(r, ok)
  \/ \E call \in lateCalls, ok \in BOOLEAN : LateFinish(call, ok)

SpecConfigured == InitConfigured /\ [][NextConfigured]_vars

\* the calls of an identity that the rate check has admitted, and those it
\* has denied
AdmittedCalls(id) == {r \in Requests : up[r].userId = id /\ "rate" \in up[r].fx}
DeniedCalls(id) == {r \in Requests : up[r].userId = id /\ up[r].thrown = "RateLimited"}

\* C29: the ceiling the upload path enforces for an identity is the
\* configured RATE_LIMIT_PER_MINUTE: of the calls of one identity made one
\* after the other within one window, uploadFileWithUserTracking admits
\* exactly as many as configured and denies the next one.
C29_ConfiguredCeilingEnforced ==
  \A id \in Identities :
    InOneWindow(id) =>
      /\ Cardinality(AdmittedCalls(id)) <= configured
      /\ DeniedCalls(id) # {} => Cardinality(AdmittedCalls(id)) = configured

\* the entries of an identity in the rate_limits table that r's admission
\* recorded and that lie inside the window ending now
EntryOf(r) ==
  {i \in 1..Len(rate_limits) :
     /\ rate_limits[i].user_id = up[r].userId
     /\ rate_limits[i].ip_address = r
     /\ instantOf(rate_limits[i].request_time) > now - WindowMs}

\* the call was admitted and failed later
FailedAfterAdmission(r) ==
  /\ up[r].pc = "failed"
  /\ "rate" \in up[r].fx
  /\ up[r].err \in {"ConnectionError", "FileReadError", "UploadTimeout",
                    "RemoteUploadError", "LedgerError"}

MaxJsonChecks == 1

\* recordUpload with what it returns: the record is pushed and the
\* statistics are updated in memory; saveData() writes the three files and
\* catches the error of a failed write (console.error), so the record is
\* returned whether or not it was written
JSON_recordUpload_returned(r, userId, transactionId, fileSize, written) ==
  /\ backend = "json"
  /\ up[r].pc = "idle"
  /\ started < MaxRecords
  /\ started' = started + 1
  /\ uploads' = storedUpload(userId, transactionId, fileSize)
  /\ users' = updateUserStats(userId, fileSize)
  /\ up' = [up EXCEPT ![r] =
              [UploadIdle EXCEPT !.pc = "read", !.phase = "recordUpload",
                                 !.userId = userId,
                                 !.receipt = transactionId,
                                 !.fx = IF written THEN {"saved"} ELSE {}]]
  /\ UNCHANGED <<cachedUploader, clockMs, active_uploads, token_assets, network,
                 disk, poolVars, borrowerVars, rateVars>>

InitJson ==
  /\ variant = "basic"
  /\ backend = "json"
  /\ configured = RATE_LIMIT_PER_MINUTE
  /\ maxConnections = UploadPoolSize
  /\ UltraFast_constructor
  /\ ConnectionPool_constructor
  /\ constructed = 0
  /\ held = [c \in Callers |-> NoHandle]
  /\ via = [c \in Callers |-> "none"]
  /\ pc = [c \in Callers |-> "idle"]
  /\ calls = 0
  /\ trip = NoTrip
  /\ RateConstructed
  /\ UploadsConstructed

\* the calls are synchronous: they are made one at a time by one caller
JsonCallers == {1}

NextJson ==
  \/ now < DashboardMaxTime /\ Tick
  \/ \E id \in Identities : Ledger_createOrGetUser(id)
  \/ \E r \in JsonCallers, id \in Identities, u \in DashboardUploads, written \in BOOLEAN :
       JSON_recordUpload_returned(r, id, u.transaction_id, u.file_size, written)
  \/ \E r \in JsonCallers, id \in Identities : JSON_getUserStats(r, id)
  \/ \E r \in JsonCallers, id \in Identities : JSON_getRecentUploads(r, id)
  \/ \E r \in JsonCallers : Reader_taken(r)
  \/ \E c \in JsonCallers, id \in Identities :
       checks < MaxJsonChecks /\ Check_json(c, id)
  \/ \E daysOld \in {1, DefaultDaysOld} : Cleanup_json(daysOld)

SpecJson == InitJson /\ [][NextJson]_vars

\* C31: a failure of the ledger write that follows a successful remote
\* upload is never swallowed: a recording call whose write of the Upload
\* record failed does not return a result, it reports the failure.
C31_LedgerFailureReported ==
  \A r \in Requests :
    (up[r].phase = "recordUpload" /\ up[r].pc = "read") => "saved" \in up[r].fx

\* the call in slot r is in flight: it has begun and has not ended
InFlightRequest(r) == up[r].pc \notin {"idle", "done", "failed", "read", "validated"}

\* C32: no two requests that are in flight at the same time use the same
\* temporary file path: the metadata and logo temp files of concurrent
\* requests are distinct, also for requests of one identity in one
\* millisecond.
C32_TempPathsDistinct ==
  \A r1, r2 \in Requests :
    (r1 # r2 /\ InFlightRequest(r1) /\ InFlightRequest(r2)) =>
       TempFiles(up[r1]) \cap TempFiles(up[r2]) = {}

(***************************************************************************)
(* The tag list of IrysUploadService.uploadFile (multi-user-api.js         *)
(* 707-716).  A tag is { name, value }; the values of the six fixed tags   *)
(* come from validateFile, the wallet address and Date.now().              *)
(***************************************************************************)
MaxCustomTags == 3
CustomTagNames == {"Asset-Type", "Category"}
CustomTagValues == {"token-logo", "image"}
CustomTag == [name : CustomTagNames, value : CustomTagValues]
CustomTagLists == UNION {[1..n -> CustomTag] : n \in 0..MaxCustomTags}

FixedTagNames ==
  <<"Content-Type", "File-Name", "File-Size", "Category", "Wallet-Address", "Upload-Time">>

\* the array literal with ...customTags spread at its end, deduplicated by
\* name: a custom tag whose name is already in the list is left out
RECURSIVE appendUnique(_, _)
appendUnique(list, more) ==
  IF more = <<>> THEN list
  ELSE appendUnique(IF \E i \in 1..Len(list) : list[i].name = Head(more).name
                    THEN list ELSE Append(list, Head(more)),
                    Tail(more))

uploadFile_tags_unique(walletAddress, uploadTime, customTags) ==
  appendUnique(<<[name |-> "Content-Type", value |-> "mime"],
                 [name |-> "File-Name", value |-> "fileName"],
                 [name |-> "File-Size", value |-> "size"],
                 [name |-> "Category", value |-> "image"],
                 [name |-> "Wallet-Address", value |-> walletAddress],
                 [name |-> "Upload-Time", value |-> uploadTime]>>, customTags)

\* const tags = [ {Content-Type}, {File-Name}, {File-Size}, {Category},
\*                {Wallet-Address}, {Upload-Time}, ...customTags ]
uploadFile_tags(walletAddress, uploadTime, customTags) ==
  <<[name |-> "Content-Type", value |-> "mime"],
    [name |-> "File-Name", value |-> "fileName"],
    [name |-> "File-Size", value |-> "size"],
    [name |-> "Category", value |-> "image"],
    [name |-> "Wallet-Address", value |-> walletAddress],
    [name |-> "Upload-Time", value |-> uploadTime]>> \o customTags

\* uploadFile(filePath, walletAddress, customTags) up to
\* connection.upload(fileData, { tags })
Service_uploadFile_tags(r, walletAddress, customTags) ==
  /\ up[r].pc = "idle"
  /\ up' = [up EXCEPT ![r] = [UploadIdle EXCEPT !.pc = "upload", !.userId = walletAddress,
                                !.customTags = customTags,
                                !.tags = uploadFile_tags(walletAddress, now, customTags)]]
  /\ UNCHANGED <<started, cachedUploader, clockMs, tables, network, disk, poolVars,
                 borrowerVars, rateVars>>

\* the upload is answered and uploadFile returns
Service_uploadFile_returned(r) ==
  /\ up[r].pc = "upload"
  /\ up' = [up EXCEPT ![r] = UploadIdle]
  /\ UNCHANGED <<started, cachedUploader, clockMs, tables, network, disk, poolVars,
                 borrowerVars, rateVars>>

InitTags ==
  /\ variant = "ultra"
  /\ backend = "production"
  /\ configured = RATE_LIMIT_PER_MINUTE
  /\ maxConnections = UploadPoolSize
  /\ UltraFast_constructor
  /\ ConnectionPool_constructor
  /\ constructed = 0
  /\ held = [c \in Callers |-> NoHandle]
  /\ via = [c \in Callers |-> "none"]
  /\ pc = [c \in Callers |-> "idle"]
  /\ calls = 0
  /\ trip = NoTrip
  /\ RateConstructed
  /\ UploadsConstructed

NextTags ==
  \/ \E r \in Requests, walletAddress \in Identities, customTags \in CustomTagLists :
       Service_uploadFile_tags(r, walletAddress, customTags)
  \/ \E r \in Requests : Service_uploadFile_returned(r)

SpecTags == InitTags /\ [][NextTags]_vars

\* C33: the tag list handed to the upload has the names Content-Type,
\* File-Name, File-Size, Category, Wallet-Address, Upload-Time in this order,
\* followed by the caller's custom tags in the order given and unchanged:
\* none is dropped, reordered or deduplicated, also when a custom name
\* repeats a fixed name or another custom name.
C33_TagOrder ==
  \A r \in Requests :
    up[r].pc = "upload" =>
      /\ Len(up[r].tags) = Len(FixedTagNames) + Len(up[r].customTags)
      /\ \A i \in 1..Len(FixedTagNames) : up[r].tags[i].name = FixedTagNames[i]
      /\ \A i \in 1..Len(up[r].customTags) :
           up[r].tags[Len(FixedTagNames) + i] = up[r].customTags[i]

\* an upload whose custom tags repeat a fixed name and repeat each other
C33_Witness ==
  \E r \in Requests :
    /\ up[r].pc = "upload"
    /\ Len(up[r].customTags) = MaxCustomTags
    /\ up[r].customTags[1].name = "Category"
    /\ up[r].customTags[2] = up[r].customTags[3]
    /\ up[r].customTags[2].name = "Asset-Type"
    /\ Len(up[r].tags) = Len(FixedTagNames) + MaxCustomTags

\* C34: every active_uploads row that startUpload created for a tracked
\* upload call has left 'uploading' when the call has returned or thrown:
\* it is 'completed' after a return and 'failed' after a throw.
C34_ReturnStep ==
  \A r \in Requests :
    (variant = "basic" /\ up[r].uploadSessionId # 0
       /\ ~HasReturned(r) /\ HasReturned(r)') =>
      active_uploads'[up[r].uploadSessionId].status =
        (IF up'[r].pc \in {"done", "uploaded"} THEN "completed" ELSE "failed")

C34_TrackingRowSettled == [][C34_ReturnStep]_vars

\* C35: in ConnectionPool every caller suspended in getConnection is resumed
\* once the borrowers release, also after failed constructions: the pool is
\* never in a state with a suspended acquirer while the idle list is empty,
\* no handle is lent out and no construction is under way (nobody is left
\* who could resume the acquirer).
C35_NoStrandedAcquirer ==
  variant = "basic" =>
    ~ /\ \E c \in Callers : pc[c] = "suspended"
      /\ pool = <<>>
      /\ Holders = {}
      /\ \A c \in Callers : pc[c] # "creating"

\* the number of places of the list at which the handle stands
occurrences(list, connection) ==
  Cardinality({i \in 1..Len(list) : list[i] = connection})

\* C36: handles are conserved in UltraFastConnectionPool: every handle
\* constructed is in exactly one of the idle list and the active list, so
\* idle.length + active.length = stats.created, and the activeConnections
\* figure of getStats (active.length) is the number of handles lent out.
C36_HandleConservation ==
  variant = "ultra" =>
    /\ Len(pool) + Len(active) = stats.created
    /\ \A connection \in 1..stats.created :
         occurrences(pool, connection) + occurrences(active, connection) = 1
    /\ Len(active) = Cardinality(Holders)

\* all handles constructed, one idle again after reuse, one handed to a
\* suspended acquirer
C36_Witness ==
  /\ variant = "ultra"
  /\ stats.created = maxConnections
  /\ stats.reused > 0
  /\ Len(pool) > 0
  /\ \E c \in Callers : via[c] = "handoff"

(***************************************************************************)
(* Isolation of the rate limiters per identity.  What a run holds about    *)
(* identity id: its entries in the ledger, its calls in progress and the   *)
(* answers it was given.  Two runs that make the same calls for id at the  *)
(* same instants give id the same answers when (a) no step of a call for   *)
(* another identity changes what the run holds about id, and (b) a call    *)
(* for id decides on id's own entries alone.                               *)
(***************************************************************************)
ownRows(id) == SelectSeq(rate_limits, LAMBDA row : row.user_id = id)
ownCalls(id) == [c \in Checkers |-> IF rl[c].userId = id THEN rl[c] ELSE IdleCall]
RateView(id) == <<rateLimits[id], ownRows(id), ownCalls(id), hist[id]>>

\* the step is a run of code of a checkRateLimit call by c for identity id
CheckStep(c, id) ==
  \/ Check_json(c, id)
  \/ Check_call(c, id)
  \/ rl[c].userId = id /\ (Check_select(c) \/ Check_insert(c))

\* the entries of the caller's identity that the SELECT of c should count
ownCount(c) ==
  Cardinality({i \in 1..Len(ownRows(rl[c].userId)) :
                 TextGreater(ownRows(rl[c].userId)[i].request_time, rl[c].cutoffTime)})

C37_OthersStep ==
  \A c \in Checkers, id \in Identities :
    CheckStep(c, id) => \A other \in Identities \ {id} : RateView(other)' = RateView(other)

C37_OwnStep ==
  \A c \in Checkers :
    Check_select(c) =>
      IF ownCount(c) < Ceiling
      THEN rl'[c].pc = "insert" /\ rl'[c].requestCount = ownCount(c)
      ELSE /\ rl'[c].pc = "idle"
           /\ ~hist'[rl[c].userId][Len(hist'[rl[c].userId])].allowed

\* C37: rate limiting is isolated per identity: the allowed/remaining
\* answers given to an identity depend on that identity's calls alone.  No
\* step of a call for another identity changes the identity's entries, its
\* calls in progress or its answers, and the count a call decides on is the
\* count of its own identity's entries.
C37_IsolatedPerIdentity == [][C37_OthersStep /\ C37_OwnStep]_vars

\* an identity was answered twice, the other identity was admitted in
\* between, and the second answer counts the identity's own entry only
C37_Witness ==
  \E id \in Identities, other \in Identities :
    /\ id # other
    /\ Len(hist[id]) = 2 /\ Len(hist[other]) = 1
    /\ hist[other][1].allowed
    /\ hist[id][1].at <= hist[other][1].at
    /\ hist[other][1].at <= hist[id][2].at
    /\ hist[id][1].remaining = Ceiling - 1
    /\ hist[id][2].remaining = Ceiling - 2

(***************************************************************************)
(* JSONUserManager.getUserStats(...).recentUploads                         *)
(* (src/src/user-json-manager.js 173).  The 5 of slice(-5) is scaled to    *)
(* RecentShown.  A record is named by its id, the number of its recording. *)
(***************************************************************************)
RecentShown == 2

\* userUploads.slice(-5): the records at the last places of the array
recentUploads(userId) ==
  LET rows == RowsOf(userId)
  IN {row.id : row \in {x \in rows : x.index > Cardinality(rows) - RecentShown}}

\* the records of the identity recorded last
mostRecentlyRecorded(userId) ==
  LET rows == RowsOf(userId)
      later(row) == Cardinality({x \in rows : x.id > row.id})
  IN {row.id : row \in {x \in rows : later(x) < RecentShown}}

\* C38: after any sequence of JSONUserManager operations the recentUploads
\* of getUserStats(id) are the five uploads of the identity recorded most
\* recently (all of them when there are fewer).
C38_RecentUploadsAreMostRecent ==
  \A id \in Identities :
    (backend = "json" /\ users[id].present) =>
       recentUploads(id) = mostRecentlyRecorded(id)

\* C39: the lazily created cached uploader of the single-uploader modules
\* is constructed at most once per process, under every interleaving of
\* concurrent getUploader / getOptimizedUploader calls.
C39_UploaderConstructedOnce ==
  variant \in {"uploader", "creator"} => constructed <= 1

C40_ReturnStep ==
  \A r \in Requests :
    (variant = "basic" /\ up[r].pc = "completeUpload"
       /\ up'[r].pc \in {"done", "uploaded"}) =>
      /\ up'[r].result.rateLimitRemaining = up[r].rateCheck.remaining
      /\ up'[r].result.rateLimitRemaining >= 0

\* C40: the rateLimitRemaining figure a successful tracked upload returns is
\* the remaining figure its admission check returned (the ceiling less the
\* identity's entries in the window after the admission), and it is never
\* negative.
C40_RemainingAsAdmitted == [][C40_ReturnStep]_vars

====
